---- MODULE Spec2Model ----
(***************************************************************************)
(* A model of metamorph's git-based task lock protocol (package tasks) and *)
(* of the daemon's state store (package daemon).                           *)
(*                                                                         *)
(* Lock protocol.  The upstream is a bare repository holding one linear    *)
(* history; every agent owns one clone with a local history, an index and  *)
(* a working tree.  A commit is the snapshot of the tracked files.  The    *)
(* content of a file is a sequence of tokens, so that formatting a lock    *)
(* record and parsing it back are two different computations.              *)
(***************************************************************************)
EXTENDS Integers, Sequences, FiniteSets, TLC

VARIABLES
    now,        \* the wall clock, in ticks of 1/Resolution second
    branch,     \* the name of the upstream's branch (git's init.defaultBranch)
    upstream,   \* the bare upstream repository: its accepted history
    clone,      \* per agent: its clone (hist, idx, wt, rebasing)
    call,       \* per agent: the ClaimTask/ReleaseTask call in progress
    ret,        \* per agent: what its last ClaimTask/ReleaseTask call returned
    out,        \* what the last ListTasks/ClearStaleTasks call returned
    budget,     \* ClaimTask/ReleaseTask calls that may still begin
    fs,         \* the files under .metamorph: state.json, state.json.tmp, daemon.pid
    alive,      \* the process ids that exist
    dpc,        \* where the daemon process is
    dstate,     \* the daemon's State in memory (d.state)
    wr,         \* the WriteState call in progress, or how the last one ended
    rd,         \* the GetStatus call in progress, or what the last one returned
    containers, \* the container runtime: per worker id, its container
    sig,        \* a SIGTERM or SIGINT is waiting in the daemon's sigCh
    dlog,       \* what the daemon's run did: its calls, sub-steps, notifications
    mon,        \* the daemon's memory beside d.state's status and uptime, and
                \* what the current tick saw and sent
    cli         \* the Start and Stop calls in progress, by caller, and the
                \* goroutines of the StopAllAgents call in progress

lockVars == <<now, branch, upstream, clone, call, ret, out, budget>>
storeVars == <<fs, alive, dpc, dstate, wr, rd>>
daemonVars == <<containers, sig, dlog, mon, cli>>
vars == <<now, branch, upstream, clone, call, ret, out, budget,
          fs, alive, dpc, dstate, wr, rd, containers, sig, dlog, mon, cli>>

(***************************************************************************)
(* Bounds of the model.                                                    *)
(***************************************************************************)
MaxCalls == 3       \* ClaimTask/ReleaseTask calls in one behaviour of Spec
RaceAgents == 3     \* K: the agents racing for one task in SpecRace
MaxNow == 2         \* the clock stops here
Resolution == 2     \* clock ticks per second (RFC3339 keeps whole seconds)
MaxAge == 1       \* the largest maxAge given to ClearStaleTasks, in clock ticks

\* Agent ids.  12, 13, ... stand for the agents of a large fleet: the decimal
\* form of id 1 is a prefix of theirs.
Agents == {1, 12}
RaceIds == {1} \cup {10 + i : i \in 2..RaceAgents}
Tasks == {"t1", "t2"}
BareRepo == 0       \* the directory of the bare upstream: it has no working tree

(***************************************************************************)
(* File names and file contents.                                           *)
(***************************************************************************)
LockFile(t) == <<t, ".lock">>
Gitkeep == <<".gitkeep", "">>
Notes == <<"t1", ".txt">>
Names == {LockFile(t) : t \in Tasks} \cup {Gitkeep, Notes}

\* os.ReadDir returns the entries sorted by file name.
SortedNames == <<Gitkeep, LockFile("t1"), Notes, LockFile("t2")>>

AG == <<"agent-", 0>>
SP == <<" ", 0>>
JUNK == <<"x", 0>>
D(n) == <<"digit", n>>
TS(s) == <<"ts", s>>

NoFile == << <<"nofile", 0>> >>
Empty == <<>>

RECURSIVE Itoa(_)
Itoa(n) == IF n < 10 THEN <<D(n)>> ELSE Itoa(n \div 10) \o <<D(n % 10)>>

IsDigit(tok) == tok[1] = "digit"

RECURSIVE DigitsValue(_)
DigitsValue(s) ==
    IF s = <<>> THEN 0 ELSE 10 * DigitsValue(SubSeq(s, 1, Len(s) - 1)) + s[Len(s)][2]

Atoi(s) ==
    IF Len(s) >= 1 /\ \A i \in 1..Len(s) : IsDigit(s[i])
    THEN [ok |-> TRUE, val |-> DigitsValue(s)]
    ELSE [ok |-> FALSE, val |-> 0]

\* time.Format(time.RFC3339) drops the fraction of a second.
FormatRFC3339(t) == <<TS(t \div Resolution)>>

ParseRFC3339(s) ==
    IF Len(s) = 1 /\ s[1][1] = "ts"
    THEN [ok |-> TRUE, val |-> s[1][2] * Resolution]
    ELSE [ok |-> FALSE, val |-> 0]

RECURSIVE TrimLeft(_)
TrimLeft(s) == IF s # <<>> /\ Head(s) = SP THEN TrimLeft(Tail(s)) ELSE s

RECURSIVE TrimRight(_)
TrimRight(s) ==
    IF s # <<>> /\ s[Len(s)] = SP THEN TrimRight(SubSeq(s, 1, Len(s) - 1)) ELSE s

TrimSpace(s) == TrimRight(TrimLeft(s))

HasPrefix(s, p) == Len(s) >= Len(p) /\ SubSeq(s, 1, Len(p)) = p

TrimPrefix(s, p) == IF HasPrefix(s, p) THEN SubSeq(s, Len(p) + 1, Len(s)) ELSE s

\* strings.SplitN(s, " ", 2)
SplitN2(s) ==
    IF \E i \in 1..Len(s) : s[i] = SP
    THEN LET i == CHOOSE k \in 1..Len(s) : s[k] = SP /\ \A j \in 1..(k - 1) : s[j] # SP
         IN  <<SubSeq(s, 1, i - 1), SubSeq(s, i + 1, Len(s))>>
    ELSE <<s>>

HasSuffixLock(name) == name[2] = ".lock"

(***************************************************************************)
(* parseLock, ListTasks and ClearStaleTasks.                               *)
(***************************************************************************)
NoLock == [Name |-> "", AgentID |-> 0, ClaimedAt |-> 0]

parseLock(filename, content) ==
    LET name == filename[1]
        parts == SplitN2(TrimSpace(content))
    IN  IF Len(parts) # 2
        THEN [err |-> "malformed", lock |-> NoLock]
        ELSE LET agentID == Atoi(TrimPrefix(parts[1], <<AG>>))
                 claimedAt == ParseRFC3339(parts[2])
             IN  IF ~agentID.ok THEN [err |-> "agent", lock |-> NoLock]
                 ELSE IF ~claimedAt.ok THEN [err |-> "timestamp", lock |-> NoLock]
                 ELSE [err |-> "none",
                       lock |-> [Name |-> name, AgentID |-> agentID.val,
                                 ClaimedAt |-> claimedAt.val]]

\* os.ReadDir(dir): the names present, in sorted order.
ReadDir(tree) == SelectSeq(SortedNames, LAMBDA n : tree[n] # NoFile)

\* The loop of ListTasks skipping a record it cannot parse.
RECURSIVE ListLoop_SkipMalformed(_, _, _)
ListLoop_SkipMalformed(entries, tree, locks) ==
    IF entries = <<>> THEN [locks |-> locks, err |-> "none"]
    ELSE LET e == Head(entries) IN
         IF ~HasSuffixLock(e) THEN ListLoop_SkipMalformed(Tail(entries), tree, locks)
         ELSE LET p == parseLock(e, tree[e]) IN
              ListLoop_SkipMalformed(Tail(entries), tree,
                                     IF p.err # "none" THEN locks ELSE Append(locks, p.lock))

\* The loop of ListTasks parsing every file of the directory.
RECURSIVE ListLoop_EveryFile(_, _, _)
ListLoop_EveryFile(entries, tree, locks) ==
    IF entries = <<>> THEN [locks |-> locks, err |-> "none"]
    ELSE LET e == Head(entries)
             p == parseLock(e, tree[e])
         IN  IF p.err # "none" THEN [locks |-> <<>>, err |-> p.err]
             ELSE ListLoop_EveryFile(Tail(entries), tree, Append(locks, p.lock))

RECURSIVE ListLoop(_, _, _)
ListLoop(entries, tree, locks) ==
    IF entries = <<>> THEN [locks |-> locks, err |-> "none"]
    ELSE LET e == Head(entries) IN
         IF ~HasSuffixLock(e) THEN ListLoop(Tail(entries), tree, locks)
         ELSE LET p == parseLock(e, tree[e]) IN
              IF p.err # "none" THEN [locks |-> <<>>, err |-> p.err]
              ELSE ListLoop(Tail(entries), tree, Append(locks, p.lock))

\* ListTasks on a directory whose lock directory holds `tree`; missing = the
\* lock directory does not exist.
ListTasksOf(missing, tree) ==
    IF missing THEN [locks |-> <<>>, err |-> "none"]
    ELSE ListLoop(ReadDir(tree), tree, <<>>)

\* The expiry test removing a lock whose age equals maxAge.
Stale_AtLeast(t, claimedAt, maxAge) == t - claimedAt >= maxAge

Stale(t, claimedAt, maxAge) == t - claimedAt > maxAge

RECURSIVE ClearLoop(_, _, _, _, _)
ClearLoop(entries, tree, cleared, t, maxAge) ==
    IF entries = <<>> THEN [cleared |-> cleared, err |-> "none", tree |-> tree]
    ELSE LET e == Head(entries) IN
         IF ~HasSuffixLock(e) THEN ClearLoop(Tail(entries), tree, cleared, t, maxAge)
         ELSE LET p == parseLock(e, tree[e]) IN
              IF p.err # "none" THEN [cleared |-> <<>>, err |-> p.err, tree |-> tree]
              ELSE IF Stale(t, p.lock.ClaimedAt, maxAge)
                   THEN ClearLoop(Tail(entries), [tree EXCEPT ![e] = NoFile],
                                  Append(cleared, p.lock.Name), t, maxAge)
                   ELSE ClearLoop(Tail(entries), tree, cleared, t, maxAge)

ClearStaleTasksOf(missing, tree, t, maxAge) ==
    IF missing THEN [cleared |-> <<>>, err |-> "none", tree |-> tree]
    ELSE ClearLoop(ReadDir(tree), tree, <<>>, t, maxAge)

(***************************************************************************)
(* git.                                                                    *)
(***************************************************************************)
SeedTree == [n \in Names |-> IF n = Gitkeep THEN Empty ELSE NoFile]
SeedCommit == [author |-> 0, tree |-> SeedTree]

HeadTree(hist) == hist[Len(hist)].tree

IsPrefix(s, t) == Len(s) <= Len(t) /\ SubSeq(t, 1, Len(s)) = s

\* git add <path>
GitAdd(c, path) == [c EXCEPT !.idx[path] = c.wt[path]]

\* git commit -m: fails when the index equals HEAD ("nothing to commit").
NothingToCommit(c) == c.idx = HeadTree(c.hist)
GitCommit(c, author) == [c EXCEPT !.hist = Append(c.hist, [author |-> author, tree |-> c.idx])]

\* git push: accepted when the remote's history is a prefix of the local one
\* (fast-forward), rejected otherwise; net = FALSE is a transport failure.
GitPush(local, remote, net) ==
    IF ~net THEN [err |-> TRUE, stderr |-> {"fatal"}, remote |-> remote]
    ELSE IF IsPrefix(remote, local) THEN [err |-> FALSE, stderr |-> {}, remote |-> local]
    ELSE [err |-> TRUE, stderr |-> {"rejected", "hint"}, remote |-> remote]

\* git checkout -- current_tasks/ : every path of the index is restored.
GitCheckoutDir(c) ==
    [c EXCEPT !.wt = [n \in Names |-> IF c.idx[n] # NoFile THEN c.idx[n] ELSE c.wt[n]]]

Tracked(c, n) == c.idx[n] # NoFile \/ HeadTree(c.hist)[n] # NoFile

\* git reset --hard <hist>: index and tracked files become the target's;
\* untracked files stay unless the target has the path.
GitResetHard(c, hist) ==
    LET target == HeadTree(hist) IN
    [c EXCEPT !.hist = hist,
              !.idx = target,
              !.wt = [n \in Names |->
                         IF Tracked(c, n) \/ target[n] # NoFile THEN target[n] ELSE c.wt[n]]]

\* The commits of `local` that `remote` does not have.
RECURSIVE CommonLen(_, _)
CommonLen(a, b) ==
    IF a # <<>> /\ b # <<>> /\ Head(a) = Head(b) THEN 1 + CommonLen(Tail(a), Tail(b)) ELSE 0

\* Replaying commits cs (the first one made on top of tree parent) onto acc.
RECURSIVE Replay(_, _, _)
Replay(acc, cs, parent) ==
    IF cs = <<>> THEN [ok |-> TRUE, hist |-> acc]
    ELSE LET c == Head(cs)
             cur == HeadTree(acc)
             changed == {n \in Names : c.tree[n] # parent[n]}
             conflict == \E n \in changed : cur[n] # parent[n] /\ cur[n] # c.tree[n]
             tree == [n \in Names |-> IF n \in changed THEN c.tree[n] ELSE cur[n]]
         IN  IF conflict THEN [ok |-> FALSE, hist |-> acc]
             ELSE Replay(IF tree = cur THEN acc
                         ELSE Append(acc, [author |-> c.author, tree |-> tree]),
                         Tail(cs), c.tree)

Dirty(c) == \/ c.idx # HeadTree(c.hist)
            \/ \E n \in Names : c.idx[n] # NoFile /\ c.wt[n] # c.idx[n]

\* git pull --rebase origin <ref>.  It fails, changing nothing, when the ref
\* does not exist on the remote, when tracked files have local changes or when
\* an untracked file is in the way; a conflict leaves the rebase in progress.
GitPullRebase(c, remote, ref, br) ==
    LET k == CommonLen(c.hist, remote)
        mine == SubSeq(c.hist, k + 1, Len(c.hist))
        r == Replay(remote, mine, c.hist[k].tree)
        target == HeadTree(r.hist)
        blocked == \E n \in Names : ~Tracked(c, n) /\ c.wt[n] # NoFile /\ target[n] # NoFile
    IN  IF ref # "HEAD" /\ ref # br THEN c
        ELSE IF Dirty(c) THEN c
        ELSE IF ~r.ok THEN [c EXCEPT !.rebasing = TRUE]
        ELSE IF blocked THEN c
        ELSE [hist |-> r.hist, idx |-> target,
              wt |-> [n \in Names |-> IF Tracked(c, n) \/ target[n] # NoFile
                                      THEN target[n] ELSE c.wt[n]],
              rebasing |-> FALSE]

(***************************************************************************)
(* ClaimTask and ReleaseTask.  A call is split where it talks to the       *)
(* remote: the local part up to the commit, the push, and (for a rejected  *)
(* claim) the pull that ends the roll back.                                *)
(***************************************************************************)
FormatLock(agentID, t) == <<AG>> \o Itoa(agentID) \o <<SP>> \o FormatRFC3339(t)

IdleCall == [pc |-> "idle", task |-> "", content |-> NoFile, base |-> <<>>, push |-> "none"]

NoRet == [op |-> "none", task |-> "", res |-> "none", err |-> "none",
          content |-> NoFile, base |-> <<>>, push |-> "none"]

Returned(op, t, res, err, content, base, push) ==
    [op |-> op, task |-> t, res |-> res, err |-> err, content |-> content,
     base |-> base, push |-> push]

\* What the remote did with a push: the environment's side of GitPush.
PushKind(local, remote, net) ==
    IF ~net THEN "failed" ELSE IF IsPrefix(remote, local) THEN "accepted" ELSE "rejected"

\* The rejection test looking for "conflict" only.
PushRejected_ConflictOnly(stderr) == "conflict" \in stderr

\* strings.Contains(stderr, "rejected") || strings.Contains(stderr, "conflict")
PushRejected(stderr) == "rejected" \in stderr \/ "conflict" \in stderr

\* ClaimTask reporting a rejected push as a success.
ClaimOutcome_RejectedWins(push) ==
    IF ~push.err \/ PushRejected(push.stderr) THEN "won" ELSE "error"

\* What ClaimTask does with the outcome of git push.
ClaimOutcome(push) ==
    IF ~push.err THEN "won"
    ELSE IF PushRejected(push.stderr) THEN "lost"
    ELSE "error"

\* The roll back before the pull: os.Remove, git checkout -- current_tasks/,
\* git reset --hard HEAD~1.
Rollback(c, t) ==
    LET c1 == [c EXCEPT !.wt[LockFile(t)] = NoFile]
        c2 == GitCheckoutDir(c1)
    IN  GitResetHard(c2, SubSeq(c2.hist, 1, Len(c2.hist) - 1))

\* The ref that the roll back pulls: git pull --rebase origin main.
RollbackRef == "main"

Faults == {"none", "add", "commit"}

ClaimBegin(a, t, fault) ==
    /\ call[a].pc = "idle"
    /\ ~clone[a].rebasing
    /\ budget > 0
    /\ budget' = budget - 1
    /\ LET c0 == clone[a]
           content == FormatLock(a, now)
           c1 == [c0 EXCEPT !.wt[LockFile(t)] = content]
           c2 == GitAdd(c1, LockFile(t))
           fail(c, err) ==
               /\ clone' = [clone EXCEPT ![a] = c]
               /\ ret' = [ret EXCEPT ![a] =
                             Returned("claim", t, "error", err, content, c0.hist, "none")]
               /\ UNCHANGED call
       IN  IF fault = "add" THEN fail(c1, "stage")
           ELSE IF fault = "commit" \/ NothingToCommit(c2) THEN fail(c2, "commit")
           ELSE /\ clone' = [clone EXCEPT ![a] = GitCommit(c2, a)]
                /\ call' = [call EXCEPT ![a] = [pc |-> "claim_push", task |-> t,
                               content |-> content, base |-> c0.hist, push |-> "none"]]
                /\ UNCHANGED ret
    /\ UNCHANGED <<now, branch, upstream, out, fs, alive, dpc, dstate, wr, rd, containers, sig, dlog, mon, cli>>

ClaimPush(a, net) ==
    /\ call[a].pc = "claim_push"
    /\ LET push == GitPush(clone[a].hist, upstream, net)
           kind == PushKind(clone[a].hist, upstream, net)
           res == ClaimOutcome(push)
           k == call[a]
       IN  /\ upstream' = push.remote
           /\ IF res = "lost"
              THEN /\ clone' = [clone EXCEPT ![a] = Rollback(clone[a], k.task)]
                   /\ call' = [call EXCEPT ![a].pc = "claim_pull", ![a].push = kind]
                   /\ UNCHANGED ret
              ELSE /\ ret' = [ret EXCEPT ![a] = Returned("claim", k.task, res,
                                  IF res = "won" THEN "none" ELSE "push",
                                  k.content, k.base, kind)]
                   /\ call' = [call EXCEPT ![a] = IdleCall]
                   /\ UNCHANGED clone
    /\ UNCHANGED <<now, branch, out, budget, fs, alive, dpc, dstate, wr, rd, containers, sig, dlog, mon, cli>>

ClaimPull(a) ==
    /\ call[a].pc = "claim_pull"
    /\ clone' = [clone EXCEPT ![a] = GitPullRebase(clone[a], upstream, RollbackRef, branch)]
    /\ ret' = [ret EXCEPT ![a] = Returned("claim", call[a].task, "lost", "none",
                                          call[a].content, call[a].base, call[a].push)]
    /\ call' = [call EXCEPT ![a] = IdleCall]
    /\ UNCHANGED <<now, branch, upstream, out, budget, fs, alive, dpc, dstate, wr, rd, containers, sig, dlog, mon, cli>>

\* The ownership test without the space that ends the agent id.
OwnedBy_NoSeparator(data, agentID) == HasPrefix(data, <<AG>> \o Itoa(agentID))

\* strings.HasPrefix(data, "agent-<id> ")
OwnedBy(data, agentID) == HasPrefix(data, <<AG>> \o Itoa(agentID) \o <<SP>>)

ReleaseBegin(a, t, fault) ==
    /\ call[a].pc = "idle"
    /\ ~clone[a].rebasing
    /\ budget > 0
    /\ budget' = budget - 1
    /\ LET c0 == clone[a]
           data == c0.wt[LockFile(t)]
           c1 == [c0 EXCEPT !.wt[LockFile(t)] = NoFile]
           c2 == GitAdd(c1, LockFile(t))
           fail(c, err) ==
               /\ clone' = [clone EXCEPT ![a] = c]
               /\ ret' = [ret EXCEPT ![a] =
                             Returned("release", t, "error", err, data, c0.hist, "none")]
               /\ UNCHANGED call
       IN  IF data = NoFile THEN fail(c0, "read")
           ELSE IF ~OwnedBy(data, a) THEN fail(c0, "owner")
           ELSE IF fault = "add" \/ c1.idx[LockFile(t)] = NoFile THEN fail(c1, "stage")
           ELSE IF fault = "commit" \/ NothingToCommit(c2) THEN fail(c2, "commit")
           ELSE /\ clone' = [clone EXCEPT ![a] = GitCommit(c2, a)]
                /\ call' = [call EXCEPT ![a] = [pc |-> "release_push", task |-> t,
                               content |-> data, base |-> c0.hist, push |-> "none"]]
                /\ UNCHANGED ret
    /\ UNCHANGED <<now, branch, upstream, out, fs, alive, dpc, dstate, wr, rd, containers, sig, dlog, mon, cli>>

ReleasePush(a, net) ==
    /\ call[a].pc = "release_push"
    /\ LET push == GitPush(clone[a].hist, upstream, net)
           kind == PushKind(clone[a].hist, upstream, net)
           k == call[a]
       IN  /\ upstream' = push.remote
           /\ ret' = [ret EXCEPT ![a] = Returned("release", k.task,
                          IF push.err THEN "error" ELSE "ok",
                          IF push.err THEN "push" ELSE "none", k.content, k.base, kind)]
    /\ call' = [call EXCEPT ![a] = IdleCall]
    /\ UNCHANGED <<now, branch, clone, out, budget, fs, alive, dpc, dstate, wr, rd, containers, sig, dlog, mon, cli>>

\* The agent's session start: git pull --rebase origin HEAD.
SessionPull(a) ==
    /\ call[a].pc = "idle"
    /\ ~clone[a].rebasing
    /\ clone' = [clone EXCEPT ![a] = GitPullRebase(clone[a], upstream, "HEAD", branch)]
    /\ clone' # clone
    /\ UNCHANGED <<now, branch, upstream, call, ret, out, budget, fs, alive, dpc, dstate, wr, rd, containers, sig, dlog, mon, cli>>

Tick ==
    /\ now < MaxNow
    /\ now' = now + 1
    /\ UNCHANGED <<branch, upstream, clone, call, ret, out, budget, fs, alive, dpc, dstate, wr, rd, containers, sig, dlog, mon, cli>>

(***************************************************************************)
(* ListTasks and ClearStaleTasks on a directory: an agent's clone, or the  *)
(* bare upstream (which has no current_tasks directory).                   *)
(***************************************************************************)
Missing(d) == d = BareRepo
TreeOf(d) == IF d = BareRepo THEN SeedTree ELSE clone[d].wt

NoOut == [op |-> "none", dir |-> BareRepo, locks |-> <<>>, cleared |-> <<>>,
          err |-> "none", before |-> SeedTree, after |-> SeedTree,
          maxAge |-> 0, at |-> 0, seq |-> 0]

ListTasks(d) ==
    /\ LET r == ListTasksOf(Missing(d), TreeOf(d))
       IN  out' = [op |-> "list", dir |-> d, locks |-> r.locks, cleared |-> <<>>,
                   err |-> r.err, before |-> TreeOf(d), after |-> TreeOf(d),
                   maxAge |-> 0, at |-> now, seq |-> 1 - out.seq]
    /\ UNCHANGED <<now, branch, upstream, clone, call, ret, budget, fs, alive, dpc, dstate, wr, rd, containers, sig, dlog, mon, cli>>

ClearStaleTasks(d, maxAge) ==
    /\ d \in DOMAIN clone => call[d].pc = "idle"
    /\ LET r == ClearStaleTasksOf(Missing(d), TreeOf(d), now, maxAge)
       IN  /\ out' = [op |-> "clear", dir |-> d, locks |-> <<>>, cleared |-> r.cleared,
                      err |-> r.err, before |-> TreeOf(d), after |-> r.tree,
                      maxAge |-> maxAge, at |-> now, seq |-> 1 - out.seq]
           /\ clone' = IF d = BareRepo THEN clone ELSE [clone EXCEPT ![d].wt = r.tree]
    /\ UNCHANGED <<now, branch, upstream, call, ret, budget, fs, alive, dpc, dstate, wr, rd, containers, sig, dlog, mon, cli>>

MaxAges == 0..MaxAge

(***************************************************************************)
(* The state store.  One daemon process at a time keeps its State in       *)
(* memory and persists it with WriteState; any process reads it with       *)
(* GetStatus.  A file is a token sequence, written token by token.         *)
(***************************************************************************)
StatePath == <<"state.json">>
PidPath == <<"daemon.pid">>

\* WriteState writing the state file in place.
TmpPath_InPlace(path) == path

\* tmpPath := statePath + ".tmp"
TmpPath(path) == path \o <<".tmp">>

Paths == {StatePath, TmpPath(StatePath), PidPath}

StoreAgents == 2    \* cfg.Agents.Count
MaxUptime == 1      \* monitor ticks of one daemon
Pids == {9, 10}     \* the process ids the daemon may get

\* The statuses updateAgentStates gives an agent.
AgentStatuses == {"running", "exited"}

NoState == [Status |-> "", Agents |-> <<>>, Uptime |-> 0]

OPEN == <<"{", "", 0>>
CLOSE == <<"}", "", 0>>

\* json.MarshalIndent(state, "", "  ")
Marshal(st) ==
    <<OPEN, <<"status", st.Status, 0>>>>
    \o [i \in 1..Len(st.Agents) |-> <<"agent", st.Agents[i], i>>]
    \o <<<<"uptime_seconds", "", st.Uptime>>, CLOSE>>

\* json.Unmarshal dropping the agents array.
Unmarshal_NoAgents(data) ==
    IF data # NoFile /\ Len(data) >= 4
    THEN [ok |-> TRUE,
          state |-> [Status |-> data[2][2], Agents |-> <<>>,
                     Uptime |-> data[Len(data) - 1][3]]]
    ELSE [ok |-> FALSE, state |-> NoState]

\* json.Unmarshal(data, &state)
Unmarshal(data) ==
    LET n == Len(data) IN
    IF /\ data # NoFile
       /\ n >= 4
       /\ data[1] = OPEN /\ data[n] = CLOSE
       /\ data[2][1] = "status"
       /\ data[n - 1][1] = "uptime_seconds"
       /\ \A i \in 3..(n - 2) : data[i][1] = "agent"
    THEN [ok |-> TRUE,
          state |-> [Status |-> data[2][2],
                     Agents |-> [i \in 1..(n - 4) |-> data[i + 2][2]],
                     Uptime |-> data[n - 1][3]]]
    ELSE [ok |-> FALSE, state |-> NoState]

\* readPID: os.ReadFile, strings.TrimSpace, strconv.Atoi
readPID(files) ==
    IF files[PidPath] = NoFile THEN [ok |-> FALSE, val |-> 0]
    ELSE Atoi(TrimSpace(files[PidPath]))

\* processAlive: signal 0 reaches the process
processAlive(pid, procs) == pid \in procs

IsRunning(files, procs) ==
    LET pid == readPID(files) IN pid.ok /\ processAlive(pid.val, procs)

\* What GetStatus makes of the bytes of state.json.
GetStatusOf(data, running) ==
    IF data = NoFile THEN [err |-> "read", state |-> NoState]
    ELSE LET u == Unmarshal(data) IN
         IF ~u.ok THEN [err |-> "parse", state |-> NoState]
         ELSE IF u.state.Status = "running" /\ ~running
              THEN [err |-> "none",
                    state |-> [u.state EXCEPT
                       !.Status = "stopped",
                       !.Agents = [i \in 1..Len(u.state.Agents) |->
                                      IF u.state.Agents[i] = "running" THEN "stopped"
                                      ELSE u.state.Agents[i]]]]
              ELSE [err |-> "none", state |-> u.state]

IdleWrite == [pc |-> "idle", data |-> <<>>, prev |-> NoFile, err |-> "none"]
IdleRead == [pc |-> "idle", data |-> NoFile, err |-> "none", state |-> NoState]

StoreIdle ==
    /\ fs = [f \in Paths |-> NoFile]
    /\ alive = {}
    /\ dpc = "none"
    /\ dstate = NoState
    /\ wr = IdleWrite
    /\ rd = IdleRead

\* Start: the liveness check of cleanOrphans, os.Remove(statePath), the child
\* process and its pid file.
Start(pid) ==
    /\ alive = {}
    /\ ~IsRunning(fs, alive)
    /\ alive' = {pid}
    /\ fs' = [fs EXCEPT ![StatePath] = NoFile, ![PidPath] = Itoa(pid)]
    /\ dpc' = "init"
    /\ dstate' = NoState
    /\ wr' = IdleWrite
    /\ UNCHANGED <<rd, now, branch, upstream, clone, call, ret, out, budget, containers, sig, dlog, mon, cli>>

\* WriteState up to the temporary file: json.MarshalIndent, os.MkdirAll and
\* the open of os.WriteFile, which truncates.
WriteBegin(st, files) ==
    [pc |-> "write", data |-> Marshal(st), prev |-> files[StatePath], err |-> "none"]

\* Run: BuildImage and startAgents, then the initial state and its write.
RunInit(ok) ==
    /\ dpc = "init"
    /\ IF ok
       THEN /\ dstate' = [Status |-> "running",
                          Agents |-> [i \in 1..StoreAgents |-> "running"],
                          Uptime |-> 0]
            /\ wr' = WriteBegin(dstate', fs)
            /\ fs' = [fs EXCEPT ![TmpPath(StatePath)] = <<>>]
            /\ dpc' = "write_init"
            /\ UNCHANGED alive
       ELSE /\ dpc' = "none"
            /\ alive' = {}
            /\ UNCHANGED <<dstate, wr, fs>>
    /\ UNCHANGED <<rd, now, branch, upstream, clone, call, ret, out, budget, containers, sig, dlog, mon, cli>>

\* monitor: updateAgentStates and restartCrashedAgents, the uptime, writeState.
Monitor(statuses) ==
    /\ dpc = "loop"
    /\ dstate.Uptime < MaxUptime
    /\ dstate' = [dstate EXCEPT !.Agents = statuses, !.Uptime = @ + 1]
    /\ wr' = WriteBegin(dstate', fs)
    /\ fs' = [fs EXCEPT ![TmpPath(StatePath)] = <<>>]
    /\ dpc' = "write_tick"
    /\ UNCHANGED <<alive, rd, now, branch, upstream, clone, call, ret, out, budget, containers, sig, dlog, mon, cli>>

\* shutdown, on SIGTERM or SIGINT: Status = "stopped", the final uptime,
\* writeState.
Shutdown(uptime) ==
    /\ dpc = "loop"
    /\ uptime >= dstate.Uptime
    /\ dstate' = [dstate EXCEPT !.Status = "stopped", !.Uptime = uptime]
    /\ wr' = WriteBegin(dstate', fs)
    /\ fs' = [fs EXCEPT ![TmpPath(StatePath)] = <<>>]
    /\ dpc' = "write_shutdown"
    /\ UNCHANGED <<alive, rd, now, branch, upstream, clone, call, ret, out, budget, containers, sig, dlog, mon, cli>>

\* The caller of WriteState goes on: Run returns the error of the initial
\* write, monitor ignores it, shutdown ignores it, removes the pid file and
\* the process exits.
AfterWrite(files, err) ==
    IF dpc = "write_init"
    THEN IF err = "none" THEN [dpc |-> "loop", fs |-> files, alive |-> alive]
         ELSE [dpc |-> "none", fs |-> files, alive |-> {}]
    ELSE IF dpc = "write_tick" THEN [dpc |-> "loop", fs |-> files, alive |-> alive]
    ELSE [dpc |-> "none", fs |-> [files EXCEPT ![PidPath] = NoFile], alive |-> {}]

WriteReturn(files, err) ==
    LET a == AfterWrite(files, err) IN
    /\ fs' = a.fs
    /\ dpc' = a.dpc
    /\ alive' = a.alive
    /\ wr' = [wr EXCEPT !.pc = "idle", !.err = err]
    /\ dstate' = IF a.alive = {} THEN NoState ELSE dstate

\* os.WriteFile(tmpPath, data): the next token reaches the file, or the write
\* fails and WriteState returns its error.
WriteChunk(io) ==
    /\ wr.pc = "write"
    /\ LET tmp == TmpPath(StatePath)
           k == Len(fs[tmp])
       IN  IF ~io THEN WriteReturn(fs, "write")
           ELSE /\ fs' = [fs EXCEPT ![tmp] = Append(@, wr.data[k + 1])]
                /\ wr' = [wr EXCEPT !.pc = IF k + 1 = Len(wr.data) THEN "rename" ELSE "write"]
                /\ UNCHANGED <<dpc, alive, dstate>>
    /\ UNCHANGED <<rd, now, branch, upstream, clone, call, ret, out, budget, containers, sig, dlog, mon, cli>>

\* os.Rename(tmpPath, statePath); os.Remove(tmpPath) when it fails.
WriteRename(io) ==
    /\ wr.pc = "rename"
    /\ LET tmp == TmpPath(StatePath) IN
       IF io /\ tmp # StatePath
       THEN WriteReturn([fs EXCEPT ![StatePath] = fs[tmp], ![tmp] = NoFile], "none")
       ELSE IF io THEN WriteReturn(fs, "none")
       ELSE WriteReturn([fs EXCEPT ![tmp] = NoFile], "rename")
    /\ UNCHANGED <<rd, now, branch, upstream, clone, call, ret, out, budget, containers, sig, dlog, mon, cli>>

\* The daemon process is killed: SIGKILL, or a crash.  Stop removes the pid
\* file after its SIGKILL.
Kill(removePid) ==
    /\ alive # {}
    /\ alive' = {}
    /\ dpc' = "none"
    /\ wr' = IdleWrite
    /\ fs' = IF removePid THEN [fs EXCEPT ![PidPath] = NoFile] ELSE fs
    /\ dstate' = NoState
    /\ UNCHANGED <<rd, now, branch, upstream, clone, call, ret, out, budget, containers, sig, dlog, mon, cli>>

\* GetStatus: os.ReadFile(statePath) ...
GetStatusRead ==
    /\ rd.pc = "idle"
    /\ rd' = [rd EXCEPT !.pc = "check", !.data = fs[StatePath]]
    /\ UNCHANGED <<fs, alive, dpc, dstate, wr, now, branch, upstream, clone, call, ret,
                   out, budget, containers, sig, dlog, mon, cli>>

\* ... json.Unmarshal, IsRunning and the correction of the statuses.
GetStatusCheck ==
    /\ rd.pc = "check"
    /\ LET r == GetStatusOf(rd.data, IsRunning(fs, alive))
       IN  rd' = [pc |-> "idle", data |-> NoFile, err |-> r.err, state |-> r.state]
    /\ UNCHANGED <<fs, alive, dpc, dstate, wr, now, branch, upstream, clone, call, ret,
                   out, budget, containers, sig, dlog, mon, cli>>

(***************************************************************************)
(* The daemon process: Start with its orphan scan, Run (BuildImage,        *)
(* startAgents, the initial state, the select loop), monitor sub-step by   *)
(* sub-step, shutdown step by step, and the workers' containers.           *)
(***************************************************************************)
Workers == 1..StoreAgents

\* The sub-steps of monitor, in the order of its body.
MonitorSteps ==
    <<"list", "tasks", "commits", "sync", "stale", "logs", "flush", "write", "heartbeat">>

\* The steps of shutdown, in the order of its body.
ShutdownSteps == <<"stopAll", "sync", "write", "removePid">>

NoStart == [err |-> "", listed |-> "no", stopAll |-> FALSE]

NoHist ==
    [start |-> NoStart,                   \* the Start call in progress: its orphan scan
     launched |-> 0,                      \* workers startAgents has launched
     pos |-> 0,                           \* the next sub-step of monitor or shutdown
     listed |-> FALSE,                    \* ListAgents has just succeeded
     starts |-> [w \in Workers |-> 0],    \* StartAgent calls restartCrashedAgents has just made
     owed |-> [w \in Workers |-> 0],      \* crashes less agent_crashed events sent
     panicked |-> FALSE,                  \* the last tick panicked and was recovered
     werr |-> FALSE]                      \* shutdown's writeState call failed

\* time.Time{}: the zero time, which IsZero reports.
ZeroTime == 0

\* The Daemon struct before Run has filled it.
NoMon ==
    [now |-> ZeroTime,                    \* now := time.Now().UTC() of the current tick
     startedAt |-> ZeroTime,              \* d.startedAt
     roles |-> <<>>,                      \* d.cfg.Agents.Roles
     webhook |-> FALSE,                   \* d.cfg.Notifications.WebhookURL is set
     agents |-> <<>>,                     \* d.state.Agents
     stats |-> [TotalCommits |-> 0, TotalSessions |-> 0, TasksCompleted |-> 0],
     prevCommitCount |-> 0,               \* d.prevCommitCount
     commitBatchStart |-> ZeroTime,       \* d.commitBatchStart
     pendingCommits |-> <<>>,             \* d.pendingCommits
     hasNewCommits |-> FALSE,             \* d.hasNewCommits
     lastErrorNotified |-> <<>>,          \* d.lastErrorNotified
     logs |-> <<>>,                       \* per worker, its latest session log
     listed |-> FALSE,                    \* ListAgents succeeded in this tick
     infos |-> <<>>,                      \* what it returned
     started |-> {},                      \* the ids whose StartAgent succeeded in this tick
     sent |-> <<>>,                       \* the events of this tick: given to sendEvent
     posted |-> <<>>,                     \* the events of this tick: sent to the webhook
     heartbeat |-> ZeroTime]              \* the time in the heartbeat file

\* The goroutine StopAllAgents starts for a container: where it is, and how
\* its ContainerStop and ContainerRemove ended.
NoGo == [pc |-> "idle", stop |-> "none", remove |-> "none"]

\* The command-line processes that call Start on the project directory.
Callers == {1, 2}

\* No Start, Stop or StopAllAgents call is in progress.
NoCli ==
    [start |-> [c \in Callers |-> [pc |-> "idle", err |-> "none"]],
     stop |-> [pc |-> "idle", pid |-> 0, err |-> "none", killed |-> FALSE],
     fan |-> [pc |-> "idle", go |-> [w \in Workers |-> NoGo], errs |-> <<>>, err |-> "none"]]

DaemonIdle ==
    /\ containers = [w \in Workers |-> "none"]
    /\ sig = FALSE
    /\ dlog = NoHist
    /\ mon = NoMon
    /\ cli = NoCli

\* StopAllAgents: every container of the project stopped and removed, or,
\* when the runtime fails, none.
StopAllAgents(cont, ok) == IF ok THEN [w \in Workers |-> "none"] ELSE cont

\* cleanOrphans without its liveness check.
cleanOrphans_NoLivenessCheck(files, procs, cont, reach, listOk, stopOk) ==
    IF reach /\ listOk /\ (\E w \in Workers : cont[w] # "none")
    THEN [err |-> "none", listed |-> "ok", stopAll |-> TRUE,
          containers |-> StopAllAgents(cont, stopOk)]
    ELSE [err |-> "none", listed |-> "no", stopAll |-> FALSE, containers |-> cont]

\* cleanOrphans: the liveness check, docker.NewClient, ListAgents, and
\* StopAllAgents when the listing is not empty.
cleanOrphans(files, procs, cont, reach, listOk, stopOk) ==
    IF IsRunning(files, procs)
    THEN [err |-> "already running", listed |-> "no", stopAll |-> FALSE, containers |-> cont]
    ELSE IF ~reach
    THEN [err |-> "none", listed |-> "no", stopAll |-> FALSE, containers |-> cont]
    ELSE IF ~listOk
    THEN [err |-> "none", listed |-> "failed", stopAll |-> FALSE, containers |-> cont]
    ELSE IF \E w \in Workers : cont[w] # "none"
    THEN [err |-> "none", listed |-> "ok", stopAll |-> TRUE,
          containers |-> StopAllAgents(cont, stopOk)]
    ELSE [err |-> "none", listed |-> "ok", stopAll |-> FALSE, containers |-> cont]

\* WriteState run to its end: the temporary file renamed over state.json, or
\* a failure that leaves state.json as it was.
WriteStateOf(files, st, io) ==
    IF io THEN [files EXCEPT ![TmpPath(StatePath)] = NoFile, ![StatePath] = Marshal(st)]
    ELSE [files EXCEPT ![TmpPath(StatePath)] = NoFile]

\* Start without its os.Remove(statePath).
DaemonStart_StaleKept(pid, reach, listOk, stopOk) ==
    /\ dlog.start = NoStart
    /\ LET r == cleanOrphans(fs, alive, containers, reach, listOk, stopOk)
           s == [err |-> r.err, listed |-> r.listed, stopAll |-> r.stopAll]
       IN  /\ containers' = r.containers
           /\ IF r.err # "none"
              THEN /\ dlog' = [dlog EXCEPT !.start = s]
                   /\ UNCHANGED <<fs, alive, dpc, dstate, sig>>
              ELSE /\ alive' = alive \cup {pid}
                   /\ fs' = [fs EXCEPT ![PidPath] = Itoa(pid)]
                   /\ dpc' = "build"
                   /\ dstate' = NoState
                   /\ sig' = FALSE
                   /\ dlog' = [NoHist EXCEPT !.start = s]
    /\ UNCHANGED <<wr, rd, mon, cli, lockVars>>

\* Start: cleanOrphans; then os.Remove(statePath), the child process and its
\* pid file.
DaemonStart(pid, reach, listOk, stopOk) ==
    /\ dlog.start = NoStart
    /\ LET r == cleanOrphans(fs, alive, containers, reach, listOk, stopOk)
           s == [err |-> r.err, listed |-> r.listed, stopAll |-> r.stopAll]
       IN  /\ containers' = r.containers
           /\ IF r.err # "none"
              THEN /\ dlog' = [dlog EXCEPT !.start = s]
                   /\ UNCHANGED <<fs, alive, dpc, dstate, sig>>
              ELSE /\ alive' = alive \cup {pid}
                   /\ fs' = [fs EXCEPT ![StatePath] = NoFile, ![PidPath] = Itoa(pid)]
                   /\ dpc' = "build"
                   /\ dstate' = NoState
                   /\ sig' = FALSE
                   /\ dlog' = [NoHist EXCEPT !.start = s]
    /\ UNCHANGED <<wr, rd, mon, cli, lockVars>>

\* Start's polling loop, once round: nil when os.Stat finds state.json, the
\* error when the child is dead, else it sleeps and polls again.
StartPoll(files, procs) ==
    IF files[StatePath] # NoFile THEN "nil"
    ELSE IF procs = {} THEN "exited"
    ELSE "wait"

\* Start returns: at once with the error of the scan; else when state.json
\* has appeared or the child process has died.
StartReturn ==
    /\ dlog.start # NoStart
    /\ dlog.start.err # "none" \/ StartPoll(fs, alive) # "wait"
    /\ dlog' = [dlog EXCEPT !.start = NoStart]
    /\ UNCHANGED <<fs, alive, dpc, dstate, containers, sig, wr, rd, mon, cli, lockVars>>

\* Run: d.docker.BuildImage; its error ends the process.
BuildImage(ok) ==
    /\ dpc = "build"
    /\ dpc' = IF ok THEN "startAgents" ELSE "none"
    /\ alive' = IF ok THEN alive ELSE {}
    /\ UNCHANGED <<fs, dstate, wr, rd, lockVars, daemonVars>>

\* Run writing the initial state after the first worker.
startAgents_FirstOnly(ok) ==
    /\ dpc = "startAgents"
    /\ containers' = [containers EXCEPT ![1] = IF ok THEN "up" ELSE "none"]
    /\ dlog' = [dlog EXCEPT !.launched = IF ok THEN 1 ELSE 0]
    /\ dpc' = IF ok THEN "writeInitial" ELSE "none"
    /\ dstate' = IF ok THEN [Status |-> "running",
                             Agents |-> [w \in Workers |-> "running"],
                             Uptime |-> 0]
                 ELSE dstate
    /\ alive' = IF ok THEN alive ELSE {}
    /\ UNCHANGED <<fs, sig, wr, rd, mon, cli, lockVars>>

\* startAgents: one iteration of its loop.  A StartAgent error makes
\* startAgents and Run return it; after the last worker Run builds the
\* initial state.
startAgents(ok) ==
    /\ dpc = "startAgents"
    /\ LET i == dlog.launched + 1 IN
       IF ok
       THEN /\ containers' = [containers EXCEPT ![i] = "up"]
            /\ dlog' = [dlog EXCEPT !.launched = i]
            /\ dpc' = IF i = StoreAgents THEN "writeInitial" ELSE "startAgents"
            /\ dstate' = IF i = StoreAgents
                         THEN [Status |-> "running",
                               Agents |-> [w \in Workers |-> "running"],
                               Uptime |-> 0]
                         ELSE dstate
            /\ UNCHANGED alive
       ELSE /\ containers' = [containers EXCEPT ![i] = "none"]
            /\ dpc' = "none"
            /\ alive' = {}
            /\ UNCHANGED <<dlog, dstate>>
    /\ UNCHANGED <<fs, sig, wr, rd, mon, cli, lockVars>>

\* Run: the write of the initial state; its error ends the process, its
\* success installs the signal handler and the ticker.
WriteInitialState(io) ==
    /\ dpc = "writeInitial"
    /\ fs' = WriteStateOf(fs, dstate, io)
    /\ dpc' = IF io THEN "select" ELSE "none"
    /\ alive' = IF io THEN alive ELSE {}
    /\ dstate' = IF io THEN dstate ELSE NoState
    /\ UNCHANGED <<containers, sig, dlog, wr, rd, mon, cli, lockVars>>

\* SIGTERM or SIGINT reaches the process while signal.Notify is in force:
\* it waits in sigCh, which holds one signal.
Signal ==
    /\ dpc \in {"select", "monitor"}
    /\ ~sig
    /\ sig' = TRUE
    /\ UNCHANGED <<fs, alive, dpc, dstate, containers, dlog, wr, rd, mon, cli, lockVars>>

\* case <-ticker.C: d.monitor(ctx) is called.
MonitorBegin ==
    /\ dpc = "select"
    /\ dpc' = "monitor"
    /\ dlog' = [dlog EXCEPT !.pos = 1, !.panicked = FALSE]
    /\ UNCHANGED <<fs, alive, dstate, containers, sig, wr, rd, mon, cli, lockVars>>

\* restartCrashedAgents sending agent_crashed for every worker it tries to
\* restart.
Notified_EveryAttempt(up, res) == ~up

\* restartCrashedAgents sends agent_crashed for a worker that is not up and
\* whose StartAgent returned no error.
Notified(up, res) == ~up /\ res = "up"

\* monitor: ListAgents, and on success updateAgentStates and
\* restartCrashedAgents.  res[w] is what StopAgent and StartAgent make of a
\* worker that is not up: a new container, none, or the old one.
MonitorList(listOk, res) ==
    /\ dpc = "monitor" /\ dlog.pos = 1
    /\ IF listOk
       THEN /\ containers' = [w \in Workers |->
                                IF containers[w] = "up" \/ res[w] = "same" THEN containers[w]
                                ELSE res[w]]
            /\ dstate' = [dstate EXCEPT !.Agents = [w \in Workers |->
                                IF containers[w] = "up" \/ res[w] = "up" THEN "running"
                                ELSE IF containers[w] = "none" THEN "stopped" ELSE "exited"]]
            /\ dlog' = [dlog EXCEPT
                  !.pos = 2, !.listed = TRUE,
                  !.starts = [w \in Workers |-> IF containers[w] = "up" THEN 0 ELSE 1],
                  !.owed = [w \in Workers |->
                               IF Notified(containers[w] = "up", res[w]) THEN @[w] - 1
                               ELSE @[w]]]
       ELSE /\ dlog' = [dlog EXCEPT !.pos = 2]
            /\ UNCHANGED <<containers, dstate>>
    /\ UNCHANGED <<fs, alive, dpc, sig, wr, rd, mon, cli, lockVars>>

\* monitor: updateTasks, countCommitsAndNotify, syncRepos when there are new
\* commits, clearStaleTasksAndNotify, checkAgentLogs, flushCommitBatch.  Each
\* handles its own errors; none touches the status or the agents' statuses.
MonitorSubStep ==
    /\ dpc = "monitor" /\ dlog.pos \in 2..7
    /\ dlog' = [dlog EXCEPT !.pos = @ + 1, !.listed = FALSE, !.starts = NoHist.starts]
    /\ UNCHANGED <<fs, alive, dpc, dstate, containers, sig, wr, rd, mon, cli, lockVars>>

\* monitor without the deferred recover: the panic ends the process.
MonitorPanic_Unrecovered ==
    /\ dpc = "monitor" /\ dlog.pos \in 1..7
    /\ dpc' = "none"
    /\ alive' = {}
    /\ dlog' = [dlog EXCEPT !.pos = 0, !.panicked = TRUE, !.listed = FALSE,
                            !.starts = NoHist.starts]
    /\ UNCHANGED <<fs, dstate, containers, sig, wr, rd, mon, cli, lockVars>>

\* A sub-step panics: the deferred recover at the top of monitor catches it
\* and monitor returns to the loop.
MonitorPanic ==
    /\ dpc = "monitor" /\ dlog.pos \in 1..7
    /\ dpc' = "select"
    /\ dlog' = [dlog EXCEPT !.pos = 0, !.panicked = TRUE, !.listed = FALSE,
                            !.starts = NoHist.starts]
    /\ UNCHANGED <<fs, alive, dstate, containers, sig, wr, rd, mon, cli, lockVars>>

\* int(now.Sub(d.startedAt).Seconds()), in tick intervals: one more than at
\* the last tick, up to MaxUptime.
Uptime(last) == IF last < MaxUptime THEN last + 1 ELSE last

\* monitor: the uptime, writeState (its error dropped) and the heartbeat.
MonitorWrite(io) ==
    /\ dpc = "monitor" /\ dlog.pos = 8
    /\ dstate' = [dstate EXCEPT !.Uptime = Uptime(@)]
    /\ fs' = WriteStateOf(fs, dstate', io)
    /\ dlog' = [dlog EXCEPT !.pos = 0]
    /\ dpc' = "select"
    /\ UNCHANGED <<alive, containers, sig, wr, rd, mon, cli, lockVars>>

\* shutdown beginning on the signal in the middle of a tick.
ShutdownStopAll_MidTick(stopOk) ==
    /\ dpc \in {"select", "monitor"} /\ sig
    /\ sig' = FALSE
    /\ containers' = StopAllAgents(containers, stopOk)
    /\ dpc' = "shutdown"
    /\ dlog' = [dlog EXCEPT !.pos = 2, !.panicked = FALSE]
    /\ UNCHANGED <<fs, alive, dstate, wr, rd, mon, cli, lockVars>>

\* case <-sigCh: shutdown begins with StopAllAgents, its error dropped.
ShutdownStopAll(stopOk) ==
    /\ dpc = "select" /\ sig
    /\ sig' = FALSE
    /\ containers' = StopAllAgents(containers, stopOk)
    /\ dpc' = "shutdown"
    /\ dlog' = [dlog EXCEPT !.pos = 2, !.panicked = FALSE]
    /\ UNCHANGED <<fs, alive, dstate, wr, rd, mon, cli, lockVars>>

\* shutdown: d.syncRepos(), its errors logged.
ShutdownSync ==
    /\ dpc = "shutdown" /\ dlog.pos = 2
    /\ dlog' = [dlog EXCEPT !.pos = 3]
    /\ UNCHANGED <<fs, alive, dpc, dstate, containers, sig, wr, rd, mon, cli, lockVars>>

\* shutdown writing the state without the change of status.
ShutdownWrite_StatusKept(io) ==
    /\ dpc = "shutdown" /\ dlog.pos = 3
    /\ dstate' = [dstate EXCEPT !.Uptime = Uptime(@)]
    /\ fs' = WriteStateOf(fs, dstate', io)
    /\ dlog' = [dlog EXCEPT !.pos = 4, !.werr = ~io]
    /\ UNCHANGED <<alive, dpc, containers, sig, wr, rd, mon, cli, lockVars>>

\* shutdown: Status = "stopped", the final uptime, writeState (its error
\* dropped).
ShutdownWrite(io) ==
    /\ dpc = "shutdown" /\ dlog.pos = 3
    /\ dstate' = [dstate EXCEPT !.Status = "stopped", !.Uptime = Uptime(@)]
    /\ fs' = WriteStateOf(fs, dstate', io)
    /\ dlog' = [dlog EXCEPT !.pos = 4, !.werr = ~io]
    /\ UNCHANGED <<alive, dpc, containers, sig, wr, rd, mon, cli, lockVars>>

\* shutdown: os.Remove(pidPath); shutdown and Run return, the process ends.
ShutdownRemovePid ==
    /\ dpc = "shutdown" /\ dlog.pos = 4
    /\ fs' = [fs EXCEPT ![PidPath] = NoFile]
    /\ dlog' = [dlog EXCEPT !.pos = 0, !.werr = FALSE]
    /\ dpc' = "none"
    /\ alive' = {}
    /\ dstate' = NoState
    /\ UNCHANGED <<containers, sig, wr, rd, mon, cli, lockVars>>

\* A worker's container exits while the daemon is in its loop.
Crash(w) ==
    /\ dpc \in {"select", "monitor"}
    /\ containers[w] = "up"
    /\ containers' = [containers EXCEPT ![w] = "exited"]
    /\ dlog' = [dlog EXCEPT !.owed[w] = @ + 1]
    /\ UNCHANGED <<fs, alive, dpc, dstate, sig, wr, rd, mon, cli, lockVars>>

(***************************************************************************)
(* Spec: the lock protocol.  Two agents claim and release tasks and pull   *)
(* at their session starts, in any interleaving.                           *)
(***************************************************************************)
FreshClone == [hist |-> <<SeedCommit>>, idx |-> SeedTree, wt |-> SeedTree, rebasing |-> FALSE]

Init ==
    /\ now = 0
    /\ branch \in {"main", "master"}
    /\ upstream = <<SeedCommit>>
    /\ clone = [a \in Agents |-> FreshClone]
    /\ call = [a \in Agents |-> IdleCall]
    /\ ret = [a \in Agents |-> NoRet]
    /\ out = NoOut
    /\ budget = MaxCalls
    /\ StoreIdle
    /\ DaemonIdle

Next ==
    \/ \E a \in Agents, t \in Tasks : ClaimBegin(a, t, "none")
    \/ \E a \in Agents, net \in BOOLEAN : ClaimPush(a, net)
    \/ \E a \in Agents : ClaimPull(a)
    \/ \E a \in Agents, t \in Tasks : ReleaseBegin(a, t, "none")
    \/ \E a \in Agents, net \in BOOLEAN : ReleasePush(a, net)
    \/ \E a \in Agents : SessionPull(a)
    \/ Tick

Spec == Init /\ [][Next]_vars

(***************************************************************************)
(* SpecRace: K agents, each with its own clone of the same upstream state, *)
(* call ClaimTask once for the same task.                                  *)
(***************************************************************************)
RaceTask == "t1"

\* The upstream states the race starts from: the seed, or task t2 already
\* claimed by an agent outside the race.
RaceBases ==
    { <<SeedCommit>>,
      <<SeedCommit, [author |-> 99,
                     tree |-> [SeedTree EXCEPT ![LockFile("t2")] = FormatLock(99, 0)]]>> }

CloneOf(hist) ==
    [hist |-> hist, idx |-> HeadTree(hist), wt |-> HeadTree(hist), rebasing |-> FALSE]

InitRace ==
    /\ now = 0
    /\ branch \in {"main", "master"}
    /\ upstream \in RaceBases
    /\ clone = [a \in RaceIds |-> CloneOf(upstream)]
    /\ call = [a \in RaceIds |-> IdleCall]
    /\ ret = [a \in RaceIds |-> NoRet]
    /\ out = NoOut
    /\ budget = RaceAgents
    /\ StoreIdle
    /\ DaemonIdle

NextRace ==
    \/ \E a \in RaceIds, fault \in Faults :
          ret[a].op = "none" /\ ClaimBegin(a, RaceTask, fault)
    \/ \E a \in RaceIds, net \in BOOLEAN : ClaimPush(a, net)
    \/ \E a \in RaceIds : ClaimPull(a)
    \/ Tick

SpecRace == InitRace /\ [][NextRace]_vars

Winners == {a \in DOMAIN ret : ret[a].op = "claim" /\ ret[a].res = "won"}
Losers == {a \in DOMAIN ret : ret[a].op = "claim" /\ ret[a].res = "lost" /\ ret[a].err = "none"}

\* C1 (mutual exclusion of claims): when K >= 2 agents, each from its own
\* clone of the same upstream state, call ClaimTask for the same task, no two
\* of them return won; and once all K calls have returned won or lost,
\* exactly one returned won and the other K-1 returned lost (false, no error).
C1_MutualExclusion ==
    /\ Cardinality(Winners) <= 1
    /\ Winners \cup Losers = DOMAIN ret =>
          /\ Cardinality(Winners) = 1
          /\ Cardinality(Losers) = RaceAgents - 1
          /\ \A a \in Winners : HeadTree(upstream)[LockFile(RaceTask)] = ret[a].content

\* All K calls of a race have returned, one of them won.
C1_Witness ==
    /\ RaceAgents >= 2
    /\ Cardinality(DOMAIN ret) = RaceAgents
    /\ Winners \cup Losers = DOMAIN ret
    /\ Winners # {}
    /\ \A a \in DOMAIN ret : ret[a].task = RaceTask

(***************************************************************************)
(* Properties of the lock protocol (Spec).                                 *)
(***************************************************************************)
UpstreamLock(t) == HeadTree(upstream)[LockFile(t)]

\* C2 (a lock is never updated in place): a lock record present in the
\* upstream is deleted or kept, never replaced by a different record; and a
\* ClaimTask on T whose clone already contained a lock for T does not return
\* won.
C2_NeverUpdatedInPlace ==
    [][/\ \A t \in Tasks :
             UpstreamLock(t) # NoFile => UpstreamLock(t)' \in {UpstreamLock(t), NoFile}
       /\ \A b \in Agents :
             (ret'[b] # ret[b] /\ ret'[b].op = "claim" /\ ret'[b].res = "won")
                => HeadTree(ret'[b].base)[LockFile(ret'[b].task)] = NoFile]_vars

\* The result of the push of a ClaimTask call, as the step that leaves the
\* push shows it.
PushSeen(a) == IF call[a].pc = "claim_pull" THEN call[a].push ELSE ret[a].push

\* C3 (won iff the push was accepted): ClaimTask returns won exactly when the
\* remote accepted the push of the lock commit, and then the upstream head
\* holds the new record; a rejected push goes to the roll back and returns
\* lost without an error; a push that failed otherwise returns an error.
C3_WonIffPushAccepted ==
    [][\A a \in Agents, t \in Tasks :
          /\ (call[a].pc = "claim_push" /\ call[a].task = t /\ call'[a].pc # "claim_push") =>
                /\ PushSeen(a)' = "accepted" <=> upstream' # upstream
                /\ PushSeen(a)' = "accepted" <=> (call'[a].pc = "idle" /\ ret'[a].res = "won")
                /\ PushSeen(a)' = "accepted" =>
                      /\ upstream' = clone[a].hist
                      /\ UpstreamLock(t)' = call[a].content
                      /\ ret'[a].err = "none"
                /\ PushSeen(a)' = "rejected" => call'[a].pc = "claim_pull"
                /\ PushSeen(a)' = "failed" =>
                      call'[a].pc = "idle" /\ ret'[a].res = "error" /\ ret'[a].err = "push"
          /\ (call[a].pc = "claim_pull" /\ call'[a].pc # "claim_pull") =>
                /\ call[a].push = "rejected"
                /\ ret'[a].op = "claim" /\ ret'[a].res = "lost" /\ ret'[a].err = "none"
                /\ upstream' = upstream]_vars

\* One call returned won after an accepted push, another lost after a
\* rejected one.
C3_Witness ==
    \E a, b \in Agents :
        /\ ret[a].op = "claim" /\ ret[a].res = "won" /\ ret[a].push = "accepted"
        /\ ret[b].op = "claim" /\ ret[b].res = "lost" /\ ret[b].push = "rejected"

\* The agent id a lock record names.
RecordedOwner(data) == parseLock(LockFile("t1"), data).lock.AgentID

\* C4 (release requires ownership): ReleaseTask(T, agentId) on a lock whose
\* recorded owner differs from agentId fails with the ownership error, leaves
\* the lock file unchanged and commits and pushes nothing; releasing a task
\* that has no lock record fails too.
C4_ReleaseRequiresOwnership ==
    [][\A a \in Agents, t \in Tasks :
          LET data == clone[a].wt[LockFile(t)] IN
          (ReleaseBegin(a, t, "none") /\ (data = NoFile \/ RecordedOwner(data) # a)) =>
              /\ ret'[a].op = "release" /\ ret'[a].task = t /\ ret'[a].res = "error"
              /\ ret'[a].err = IF data = NoFile THEN "read" ELSE "owner"
              /\ clone' = clone
              /\ upstream' = upstream
              /\ call'[a].pc = "idle"]_vars

\* Agent 1 asked to release a lock that agent 12 holds, and was refused.
C4_Witness ==
    \E t \in Tasks :
        /\ ret[1].op = "release" /\ ret[1].task = t /\ ret[1].err = "owner"
        /\ RecordedOwner(clone[1].wt[LockFile(t)]) = 12

\* C5 (a lost claim is rolled back): when ClaimTask returns lost, the commit
\* it made is gone from the clone, the lock file does not hold the content it
\* wrote, and the local branch is at the remote tip.
C5_LostClaimRolledBack ==
    [][\A a \in Agents :
          (call[a].pc = "claim_pull" /\ call'[a].pc = "idle") =>
              /\ clone'[a].hist = upstream'
              /\ clone'[a].wt[LockFile(call[a].task)] # call[a].content
              /\ clone'[a].idx = HeadTree(upstream')
              /\ ~clone'[a].rebasing]_vars

(***************************************************************************)
(* SpecDir: ListTasks and ClearStaleTasks on a working copy whose lock     *)
(* directory holds well-formed records, malformed records and other files, *)
(* and on the bare upstream.                                               *)
(***************************************************************************)
DirAgent == 1

WellFormedSamples ==
    { FormatLock(1, 0), FormatLock(12, Resolution),
      <<SP>> \o FormatLock(12, 0) \o <<SP>>,      \* surrounded by white space
      <<D(1), SP, TS(0)>> }                        \* without the "agent-" prefix

MalformedSamples ==
    { Empty, <<JUNK>>,                             \* one field
      <<AG, JUNK, SP, TS(0)>>, <<AG, SP, TS(0)>>,  \* agent id is no number
      <<AG, D(1), SP, JUNK>>, <<AG, D(1), SP, SP, TS(0)>> }  \* timestamp does not parse

DirTrees ==
    { [n \in Names |-> IF n = Gitkeep THEN k ELSE IF n = Notes THEN x
                       ELSE IF n = LockFile("t1") THEN c1 ELSE c2] :
        k \in {NoFile, Empty},
        x \in {NoFile, <<JUNK>>, FormatLock(12, 0)},
        c1 \in {NoFile} \cup WellFormedSamples \cup MalformedSamples,
        c2 \in {NoFile} \cup WellFormedSamples \cup MalformedSamples }

Dirs == {DirAgent, BareRepo}

InitDir ==
    /\ now = 0
    /\ branch = "main"
    /\ upstream = <<SeedCommit>>
    /\ \E tree \in DirTrees : clone = [a \in {DirAgent} |-> [FreshClone EXCEPT !.wt = tree]]
    /\ call = [a \in {DirAgent} |-> IdleCall]
    /\ ret = [a \in {DirAgent} |-> NoRet]
    /\ out = NoOut
    /\ budget = 0
    /\ StoreIdle
    /\ DaemonIdle

NextDir ==
    \/ \E d \in Dirs : ListTasks(d)
    \/ \E d \in Dirs, m \in MaxAges : ClearStaleTasks(d, m)
    \/ Tick

SpecDir == InitDir /\ [][NextDir]_vars

(***************************************************************************)
(* SpecStore: a daemon is started, runs, shuts down or is killed, and is   *)
(* started again, while GetStatus calls read the state.                    *)
(***************************************************************************)
LockIdle ==
    /\ now = 0
    /\ branch = "main"
    /\ upstream = <<SeedCommit>>
    /\ clone = [a \in {DirAgent} |-> FreshClone]
    /\ call = [a \in {DirAgent} |-> IdleCall]
    /\ ret = [a \in {DirAgent} |-> NoRet]
    /\ out = NoOut
    /\ budget = 0

InitStore == StoreIdle /\ LockIdle /\ DaemonIdle

NextStore ==
    \/ \E pid \in Pids : Start(pid)
    \/ \E ok \in BOOLEAN : RunInit(ok)
    \/ \E statuses \in [1..StoreAgents -> AgentStatuses] : Monitor(statuses)
    \/ \E uptime \in 0..MaxUptime : Shutdown(uptime)
    \/ \E io \in BOOLEAN : WriteChunk(io)
    \/ \E io \in BOOLEAN : WriteRename(io)
    \/ \E removePid \in BOOLEAN : Kill(removePid)
    \/ GetStatusRead
    \/ GetStatusCheck

SpecStore == InitStore /\ [][NextStore]_vars

(***************************************************************************)
(* SpecDaemon: Start commands, the daemon's run from BuildImage to the end *)
(* of shutdown, termination signals and crashing workers.                  *)
(***************************************************************************)
InitDaemon == StoreIdle /\ LockIdle /\ DaemonIdle

NextDaemon ==
    \/ \E pid \in {CHOOSE p \in Pids : TRUE}, reach, listOk, stopOk \in BOOLEAN :
          DaemonStart(pid, reach, listOk, stopOk)
    \/ StartReturn
    \/ \E ok \in BOOLEAN : BuildImage(ok)
    \/ \E ok \in BOOLEAN : startAgents(ok)
    \/ \E io \in BOOLEAN : WriteInitialState(io)
    \/ Signal
    \/ MonitorBegin
    \/ \E listOk \in BOOLEAN, res \in [Workers -> {"up", "none", "same"}] :
          MonitorList(listOk, res)
    \/ MonitorSubStep
    \/ MonitorPanic
    \/ \E io \in BOOLEAN : MonitorWrite(io)
    \/ \E stopOk \in BOOLEAN : ShutdownStopAll(stopOk)
    \/ ShutdownSync
    \/ \E io \in BOOLEAN : ShutdownWrite(io)
    \/ ShutdownRemovePid
    \/ \E w \in Workers : Crash(w)

SpecDaemon == InitDaemon /\ [][NextDaemon]_vars

\* The statements of the daemon process that follow one another without a
\* wait: each returns within its timeouts.
DaemonStep ==
    \/ \E ok \in BOOLEAN : BuildImage(ok)
    \/ \E ok \in BOOLEAN : startAgents(ok)
    \/ \E io \in BOOLEAN : WriteInitialState(io)
    \/ \E listOk \in BOOLEAN, res \in [Workers -> {"up", "none", "same"}] :
          MonitorList(listOk, res)
    \/ MonitorSubStep
    \/ \E io \in BOOLEAN : MonitorWrite(io)
    \/ ShutdownSync
    \/ \E io \in BOOLEAN : ShutdownWrite(io)
    \/ ShutdownRemovePid

\* FairSpecDaemon: the process runs on when it can, and the select of the
\* loop, which picks at random among the ready cases, does not pass over a
\* waiting signal for ever.
FairSpecDaemon ==
    /\ SpecDaemon
    /\ WF_vars(DaemonStep)
    /\ SF_vars(\E stopOk \in BOOLEAN : ShutdownStopAll(stopOk))

(***************************************************************************)
(* SpecSync: the project directory and the upstream.  The user commits and *)
(* edits in the project directory, agents push to the upstream, and        *)
(* SyncToProjectDir merges the upstream's tip into the project directory.  *)
(* The project directory is clone[DirAgent], with the number of upstream   *)
(* commits it has merged (base) and MERGE_HEAD (merging).                  *)
(***************************************************************************)
ProjectDir == [hist |-> <<SeedCommit>>, idx |-> SeedTree, wt |-> SeedTree,
               base |-> 1, merging |-> FALSE]

\* What a conflicted merge leaves in a file: both versions between markers.
ConflictMarkers(ours, theirs) == <<JUNK>> \o ours \o <<JUNK>> \o theirs \o <<JUNK>>

\* git merge <upstream tip>.  Already up to date: nothing.  It refuses,
\* changing nothing, when a file it has to write has local changes or is an
\* untracked file in the way.  A file changed on both sides in different ways
\* is a conflict: the merge stops with MERGE_HEAD set, the files it could
\* merge staged and the conflict markers in the working tree.
GitMerge(p, remote) ==
    LET base == remote[p.base].tree
        ours == HeadTree(p.hist)
        theirs == HeadTree(remote)
        take == {n \in Names : theirs[n] # base[n] /\ theirs[n] # ours[n]}
        conflicts == {n \in take : ours[n] # base[n]}
        merged == [n \in Names |-> IF n \in take THEN theirs[n] ELSE ours[n]]
    IN  IF p.base = Len(remote) THEN [err |-> FALSE, res |-> "uptodate", p |-> p]
        ELSE IF p.idx # ours \/ \E n \in take : p.wt[n] # ours[n]
        THEN [err |-> TRUE, res |-> "refused", p |-> p]
        ELSE IF conflicts # {}
        THEN [err |-> TRUE, res |-> "conflict",
              p |-> [p EXCEPT
                 !.merging = TRUE,
                 !.idx = [n \in Names |-> IF n \in conflicts THEN NoFile ELSE merged[n]],
                 !.wt = [n \in Names |->
                           IF n \in conflicts THEN ConflictMarkers(ours[n], theirs[n])
                           ELSE IF n \in take THEN theirs[n] ELSE p.wt[n]]]]
        ELSE [err |-> FALSE, res |-> "merged",
              p |-> [p EXCEPT
                 !.hist = IF merged = ours THEN @
                          ELSE Append(@, [author |-> 0, tree |-> merged]),
                 !.base = Len(remote),
                 !.idx = merged,
                 !.wt = [n \in Names |-> IF n \in take THEN theirs[n] ELSE p.wt[n]]]]

\* git merge --abort without effect.
GitMergeAbort_Nothing(p) == p

\* git merge --abort: with no merge in progress it fails and changes
\* nothing; else MERGE_HEAD is removed, the index is HEAD's again and every
\* file the merge wrote is HEAD's again.
GitMergeAbort(p) ==
    IF ~p.merging THEN p
    ELSE LET head == HeadTree(p.hist) IN
         [p EXCEPT !.merging = FALSE,
                   !.idx = head,
                   !.wt = [n \in Names |-> IF p.idx[n] # head[n] THEN head[n] ELSE p.wt[n]]]

\* SyncToProjectDir: the merge; when it fails, the abort and the error.
SyncToProjectDir ==
    /\ ret[DirAgent] = NoRet
    /\ LET m == GitMerge(clone[DirAgent], upstream) IN
       IF m.err
       THEN /\ clone' = [clone EXCEPT ![DirAgent] = GitMergeAbort(m.p)]
            /\ ret' = [ret EXCEPT ![DirAgent] =
                  Returned("sync", "", m.res, "merge failed", NoFile, <<>>, "none")]
       ELSE /\ clone' = [clone EXCEPT ![DirAgent] = m.p]
            /\ ret' = [ret EXCEPT ![DirAgent] =
                  Returned("sync", "", m.res, "none", NoFile, <<>>, "none")]
    /\ UNCHANGED <<now, branch, upstream, call, out, budget, storeVars, daemonVars>>

SyncNames == {Notes, LockFile("t1")}
SyncContents == {Empty, <<JUNK>>}

\* The user writes a file in the project directory and commits it.
ProjectCommit(n, c) ==
    /\ budget > 0
    /\ clone[DirAgent].idx[n] # c
    /\ LET p == clone[DirAgent]
           q == GitAdd([p EXCEPT !.wt[n] = c], n)
       IN  clone' = [clone EXCEPT ![DirAgent] = GitCommit(q, 0)]
    /\ budget' = budget - 1
    /\ ret' = [ret EXCEPT ![DirAgent] = NoRet]
    /\ UNCHANGED <<now, branch, upstream, call, out, storeVars, daemonVars>>

\* The user writes a file in the project directory and leaves it uncommitted.
ProjectEdit(n, c) ==
    /\ clone[DirAgent].wt[n] # c
    /\ clone' = [clone EXCEPT ![DirAgent].wt[n] = c]
    /\ ret' = [ret EXCEPT ![DirAgent] = NoRet]
    /\ UNCHANGED <<now, branch, upstream, call, out, budget, storeVars, daemonVars>>

\* An agent pushes a commit that writes a file.
AgentPush(n, c) ==
    /\ budget > 0
    /\ HeadTree(upstream)[n] # c
    /\ upstream' = Append(upstream,
                          [author |-> 1, tree |-> [HeadTree(upstream) EXCEPT ![n] = c]])
    /\ budget' = budget - 1
    /\ ret' = [ret EXCEPT ![DirAgent] = NoRet]
    /\ UNCHANGED <<now, branch, clone, call, out, storeVars, daemonVars>>

InitSync ==
    /\ now = 0
    /\ branch = "main"
    /\ upstream = <<SeedCommit>>
    /\ clone = [a \in {DirAgent} |-> ProjectDir]
    /\ call = [a \in {DirAgent} |-> IdleCall]
    /\ ret = [a \in {DirAgent} |-> NoRet]
    /\ out = NoOut
    /\ budget = MaxCalls
    /\ StoreIdle
    /\ DaemonIdle

NextSync ==
    \/ \E n \in SyncNames, c \in SyncContents : ProjectCommit(n, c)
    \/ \E n \in SyncNames, c \in SyncContents : ProjectEdit(n, c)
    \/ \E n \in SyncNames, c \in SyncContents : AgentPush(n, c)
    \/ SyncToProjectDir

SpecSync == InitSync /\ [][NextSync]_vars

(***************************************************************************)
(* One tick of monitor in detail: the agents' records, the notification    *)
(* state of the Daemon struct and the events given to sendEvent.  Time is  *)
(* counted in minutes.                                                     *)
(***************************************************************************)
commitBatchInterval == 1        \* 60 * time.Second
errorDebounceCooldown == 5      \* 5 * time.Minute
staleTaskMaxAge == 120          \* 2 * time.Hour

MaxRun == 6                     \* the minutes of the daemon's run in which ticks begin
MaxEvents == 1                  \* the events and faults of the environment in one run
StartedAt == staleTaskMaxAge + 1    \* d.startedAt: Run begins, with old locks upstream
MaxClock == StartedAt + MaxRun
\* The minutes between two ticks.
Gaps == {1, errorDebounceCooldown}

\* A time in minutes as a time of the lock records' clock.
Minutes(n) == n * 60 * Resolution

\* The Status of a container as the runtime reports it.
UpStatus == <<"Up", "5", "minutes">>
ExitedStatus == <<"Exited", "(1)", "5", "minutes", "ago">>
CreatedStatus == <<"Created">>
RestartingStatus == <<"Restarting", "(1)", "5", "seconds", "ago">>
DockerStatuses == {UpStatus, ExitedStatus, CreatedStatus, RestartingStatus}

\* strings.ToLower
ToLower(s) ==
    [i \in DOMAIN s |-> CASE s[i] = "Up" -> "up"
                          [] s[i] = "Exited" -> "exited"
                          [] s[i] = "Created" -> "created"
                          [] s[i] = "Restarting" -> "restarting"
                          [] OTHER -> s[i]]

\* strings.Contains, on words
Contains(s, word) == \E i \in DOMAIN s : s[i] = word

normalizeStatus(dockerStatus) ==
    LET lower == ToLower(dockerStatus) IN
    IF Contains(lower, "up") THEN "running"
    ELSE IF Contains(lower, "exited") THEN "exited"
    ELSE IF Contains(lower, "created") THEN "created"
    ELSE "unknown"

\* The container ids: of startAgents, of a container the runtime reports in
\* its place, and of restartCrashedAgents' StartAgent.
FirstContainer == "c0"
OtherContainer == "c1"
NewContainer == "c2"

\* The agent id ListAgents gives a container whose label does not parse.
StrayID == 0

NoTask == <<>>      \* CurrentTask = nil

\* role := "developer"; if len(roles) > 0 { role = roles[i%len(roles)] }
AgentRole_NoOffset(i, roles) ==
    IF Len(roles) > 0 THEN roles[(i % Len(roles)) + 1] ELSE "developer"

\* role := "developer"; if len(roles) > 0 { role = roles[(i-1)%len(roles)] }
\* (roles is indexed from 0 in the code, from 1 here)
AgentRole(i, roles) ==
    IF Len(roles) > 0 THEN roles[((i - 1) % Len(roles)) + 1] ELSE "developer"

\* The AgentState startAgents appends for worker i.
StartedAgent(i, roles) ==
    [ID |-> i, Role |-> AgentRole(i, roles), ContainerID |-> FirstContainer,
     Status |-> "running", CurrentTask |-> NoTask]

\* ListAgents: one AgentInfo per container of the project.  f gives, for
\* every id, the container with that label or none.
Absent == [ContainerID |-> "", Status |-> <<>>]
ListedIds == [k \in 1..(StoreAgents + 1) |-> IF k <= StoreAgents THEN k ELSE StrayID]

\* What the runtime may report for a worker's id: no container, another
\* container that is up, or the container the daemon knows in any status;
\* and for the stray id: no container, or a container that is up.
Reports(agents, id) ==
    IF id \in Workers
    THEN {Absent, [ContainerID |-> OtherContainer, Status |-> UpStatus]}
         \cup {[ContainerID |-> agents[id].ContainerID, Status |-> s] : s \in DockerStatuses}
    ELSE {Absent, [ContainerID |-> OtherContainer, Status |-> UpStatus]}

InfosOf(f) ==
    LET present == SelectSeq(ListedIds, LAMBDA id : f[id] # Absent)
    IN  [k \in 1..Len(present) |->
            [ID |-> present[k], ContainerID |-> f[present[k]].ContainerID,
             Status |-> f[present[k]].Status]]

\* The report when a worker's container is the one the daemon knows and is
\* up; no container has the stray id.
SteadyReport(agents, id) ==
    IF id \in Workers THEN [ContainerID |-> agents[id].ContainerID, Status |-> UpStatus]
    ELSE Absent

\* The listings that differ from the steady one in at most n reports.
Listings(agents, n) ==
    LET ids == Workers \cup {StrayID}
        near == {f \in [ids -> UNION {Reports(agents, id) : id \in ids}] :
                   /\ \A id \in ids : f[id] \in Reports(agents, id)
                   /\ Cardinality({id \in ids : f[id] # SteadyReport(agents, id)}) <= n}
    IN  {InfosOf(f) : f \in near}

\* infoMap[id]: the last AgentInfo with that id, 0 when there is none.
InfoIndex(infos, id) ==
    LET S == {k \in DOMAIN infos : infos[k].ID = id}
    IN  IF S = {} THEN 0 ELSE CHOOSE k \in S : \A j \in S : j <= k

\* The number of reports in which a listing differs from the steady one.
Deviations(agents, infos) ==
    Cardinality({id \in Workers \cup {StrayID} :
        LET k == InfoIndex(infos, id)
            r == IF k = 0 THEN Absent
                 ELSE [ContainerID |-> infos[k].ContainerID, Status |-> infos[k].Status]
        IN  r # SteadyReport(agents, id)})

\* updateAgentStates that marks an agent without a container as exited.
updateAgentStates_MissingExited(agents, infos) ==
    [i \in DOMAIN agents |->
        LET a == agents[i]
            k == InfoIndex(infos, a.ID)
        IN  IF k # 0
            THEN [a EXCEPT !.ContainerID = infos[k].ContainerID,
                           !.Status = normalizeStatus(infos[k].Status)]
            ELSE [a EXCEPT !.Status = "exited"]]

updateAgentStates(agents, infos) ==
    [i \in DOMAIN agents |->
        LET a == agents[i]
            k == InfoIndex(infos, a.ID)
        IN  IF k # 0
            THEN [a EXCEPT !.ContainerID = infos[k].ContainerID,
                           !.Status = normalizeStatus(infos[k].Status)]
            ELSE [a EXCEPT !.Status = "stopped"]]

\* notify.Event: its type, its agent (0 when it has none) and its details.
Event(type, agentID, details) == [Type |-> type, AgentID |-> agentID, Details |-> details]

\* The events of the agents that satisfy Test, in the order of d.state.Agents.
AgentEvents(agents, type, Test(_)) ==
    LET hit == SelectSeq(agents, Test)
    IN  [k \in DOMAIN hit |-> Event(type, hit[k].ID, <<>>)]

\* The ids of the containers restartCrashedAgents takes for running.
RunningIds(infos) ==
    {infos[k].ID : k \in {j \in DOMAIN infos : Contains(ToLower(infos[j].Status), "up")}}

\* restartCrashedAgents that restarts only the agents the runtime reports.
restartCrashedAgents_ReportedOnly(agents, infos, ok) ==
    LET running == RunningIds(infos)
        down == {agents[i].ID : i \in {j \in DOMAIN agents :
                    /\ agents[j].ID \notin running
                    /\ InfoIndex(infos, agents[j].ID) # 0}}
        started == {id \in down : ok[id]}
    IN  [agents |-> [i \in DOMAIN agents |->
                        IF agents[i].ID \in started
                        THEN [agents[i] EXCEPT !.ContainerID = NewContainer,
                                               !.Status = "running"]
                        ELSE agents[i]],
         stopped |-> down,
         tried |-> down,
         started |-> started,
         events |-> AgentEvents(agents, "agent_crashed", LAMBDA a : a.ID \in started)]

\* restartCrashedAgents: for every agent that is not running, StopAgent (its
\* error dropped) and StartAgent; ok[id] is whether StartAgent succeeds.
restartCrashedAgents(agents, infos, ok) ==
    LET running == RunningIds(infos)
        down == {agents[i].ID : i \in {j \in DOMAIN agents : agents[j].ID \notin running}}
        started == {id \in down : ok[id]}
    IN  [agents |-> [i \in DOMAIN agents |->
                        IF agents[i].ID \in started
                        THEN [agents[i] EXCEPT !.ContainerID = NewContainer,
                                               !.Status = "running"]
                        ELSE agents[i]],
         stopped |-> down,
         tried |-> down,
         started |-> started,
         events |-> AgentEvents(agents, "agent_crashed", LAMBDA a : a.ID \in started)]

\* monitor with the restart before the reconciliation.
Reconcile_RestartFirst(agents, infos, ok) ==
    LET r == restartCrashedAgents(agents, infos, ok)
    IN  [r EXCEPT !.agents = updateAgentStates(r.agents, infos)]

\* monitor: d.updateAgentStates(agents); d.restartCrashedAgents(ctx, agents)
Reconcile(agents, infos, ok) ==
    restartCrashedAgents(updateAgentStates(agents, infos), infos, ok)

\* updateTasks: taskMap[lock.AgentID] = lock.Name, then every agent's
\* CurrentTask from the map.  listed is what tasks.ListTasks returned.
updateTasks(agents, listed) ==
    IF listed.err # "none" THEN agents
    ELSE [i \in DOMAIN agents |->
            LET S == {k \in DOMAIN listed.locks : listed.locks[k].AgentID = agents[i].ID}
            IN  [agents[i] EXCEPT !.CurrentTask =
                    IF S = {} THEN NoTask
                    ELSE <<listed.locks[CHOOSE k \in S : \A j \in S : j <= k].Name>>]]

\* git log --oneline -<n>: the newest n of count commits, newest first.
GitLog(count, n) == [k \in 1..n |-> count - k + 1]

\* countCommitsAndNotify recording the number of new commits as the total.
countCommitsAndNotify_Delta(m, revOk, out0, logOk, t) ==
    LET count == Atoi(TrimSpace(out0)) IN
    IF ~revOk \/ ~count.ok THEN m
    ELSE [m EXCEPT !.prevCommitCount = count.val,
                   !.stats.TotalCommits = count.val - m.prevCommitCount]

\* countCommitsAndNotify: out0 is the output of git rev-list --count HEAD,
\* revOk and logOk are whether rev-list and log succeed, t is monitor's now.
countCommitsAndNotify(m, revOk, out0, logOk, t) ==
    LET count == Atoi(TrimSpace(out0))
        newCommits == count.val - m.prevCommitCount
        fresh == m.prevCommitCount > 0 /\ newCommits > 0
    IN  IF ~revOk \/ ~count.ok THEN m
        ELSE [m EXCEPT
                !.hasNewCommits = IF fresh THEN TRUE ELSE @,
                !.commitBatchStart = IF fresh /\ logOk /\ @ = ZeroTime THEN t ELSE @,
                !.pendingCommits = IF fresh /\ logOk THEN @ \o GitLog(count.val, newCommits)
                                   ELSE @,
                !.prevCommitCount = count.val,
                !.stats.TotalCommits = count.val]

\* flushCommitBatch sending the batch whenever it is not empty.
flushCommitBatch_NoWindow(m, t) ==
    IF Len(m.pendingCommits) = 0 THEN [m |-> m, events |-> <<>>]
    ELSE [m |-> [m EXCEPT !.pendingCommits = <<>>, !.commitBatchStart = ZeroTime],
          events |-> <<Event("commits_pushed", 0,
                             [count |-> Len(m.pendingCommits),
                              commits |-> m.pendingCommits])>>]

flushCommitBatch(m, t) ==
    IF Len(m.pendingCommits) = 0 THEN [m |-> m, events |-> <<>>]
    ELSE IF t - m.commitBatchStart < commitBatchInterval THEN [m |-> m, events |-> <<>>]
    ELSE [m |-> [m EXCEPT !.pendingCommits = <<>>, !.commitBatchStart = ZeroTime],
          events |-> <<Event("commits_pushed", 0,
                             [count |-> Len(m.pendingCommits),
                              commits |-> m.pendingCommits])>>]

\* clearStaleTasksAndNotify: r is what tasks.ClearStaleTasks returned.
clearStaleTasksAndNotify(m, r) ==
    IF r.err # "none" THEN [m |-> m, events |-> <<>>]
    ELSE [m |-> [m EXCEPT !.stats.TasksCompleted = @ + Len(r.cleared)],
          events |-> [k \in DOMAIN r.cleared |-> Event("stale_lock", 0, r.cleared[k])]]

\* What checkAgentLogs finds for a worker: no log directory or no session
\* log, a latest log whose last lines hold no ERROR: and no FAIL, or one
\* whose last lines hold such a line.
LogStates == {"none", "clean", "error"}

\* checkAgentLogs without the cooldown.
checkAgentLogs_NoCooldown(agents, last, logs, t) ==
    LET hit == {agents[i].ID : i \in {j \in DOMAIN agents : logs[agents[j].ID] = "error"}}
    IN  [last |-> [id \in DOMAIN last \cup hit |-> IF id \in hit THEN t ELSE last[id]],
         events |-> AgentEvents(agents, "test_failure", LAMBDA a : a.ID \in hit)]

\* checkAgentLogs: an agent notified less than the cooldown ago is skipped;
\* the first matching line of the others' logs is reported, once.
checkAgentLogs(agents, last, logs, t) ==
    LET due == {agents[i].ID : i \in {j \in DOMAIN agents :
                   \/ agents[j].ID \notin DOMAIN last
                   \/ ~(t - last[agents[j].ID] < errorDebounceCooldown)}}
        hit == {id \in due : logs[id] = "error"}
    IN  [last |-> [id \in DOMAIN last \cup hit |-> IF id \in hit THEN t ELSE last[id]],
         events |-> AgentEvents(agents, "test_failure", LAMBDA a : a.ID \in hit)]

\* sendEvent: nothing is sent when no webhook URL is configured.
sendEvent(webhook, events) == IF webhook THEN events ELSE <<>>

\* syncRepos on the project directory: SyncToProjectDir, its error logged.
syncRepos(p, remote) ==
    LET m == GitMerge(p, remote) IN IF m.err THEN GitMergeAbort(m.p) ELSE m.p

\* int(now.Sub(d.startedAt).Seconds())
UptimeSeconds(t, startedAt) == (t - startedAt) * 60

\* The events of a sub-step, given to sendEvent.
Sending(m, events) ==
    [m EXCEPT !.sent = @ \o events, !.posted = @ \o sendEvent(m.webhook, events)]

Statuses(agents) == [i \in DOMAIN agents |-> agents[i].Status]

\* The faults among the outcomes of a step's calls.
Faults2(oks) == Cardinality({k \in DOMAIN oks : ~oks[k]})

\* monitor reconciling with an empty listing when ListAgents fails.
MonitorOf_EmptyOnFailure(m, t, listOk, infos, ok, revOk, count, logOk) ==
    LET r == Reconcile(m.agents, IF listOk THEN infos ELSE <<>>, ok)
        m0 == [m EXCEPT !.now = t, !.listed = listOk,
                        !.infos = IF listOk THEN infos ELSE <<>>,
                        !.started = r.started,
                        !.sent = <<>>, !.posted = <<>>]
        m1 == Sending([m0 EXCEPT !.agents = r.agents], r.events)
        m2 == [m1 EXCEPT !.agents =
                  updateTasks(@, ListTasksOf(Missing(BareRepo), TreeOf(BareRepo)))]
        m3 == countCommitsAndNotify(m2, revOk, count, logOk, t)
        m4 == [m3 EXCEPT !.hasNewCommits = FALSE]
        r5 == clearStaleTasksAndNotify(m4,
                  ClearStaleTasksOf(Missing(BareRepo), TreeOf(BareRepo),
                                    Minutes(t), Minutes(staleTaskMaxAge)))
        m5 == Sending(r5.m, r5.events)
        r6 == checkAgentLogs(m5.agents, m5.lastErrorNotified, m5.logs, t)
        m6 == Sending([m5 EXCEPT !.lastErrorNotified = r6.last], r6.events)
        r7 == flushCommitBatch(m6, t)
    IN  [m |-> Sending(r7.m, r7.events), sync |-> m3.hasNewCommits]

\* monitor at time t (now := time.Now()): its sub-steps in memory, in the
\* order of its body: ListAgents and, when it succeeds, updateAgentStates
\* and restartCrashedAgents; updateTasks; countCommitsAndNotify; the flag of
\* syncRepos; clearStaleTasksAndNotify; checkAgentLogs; flushCommitBatch.
MonitorOf(m, t, listOk, infos, ok, revOk, count, logOk) ==
    LET r == Reconcile(m.agents, infos, ok)
        m0 == [m EXCEPT !.now = t, !.listed = listOk,
                        !.infos = IF listOk THEN infos ELSE <<>>,
                        !.started = IF listOk THEN r.started ELSE {},
                        !.sent = <<>>, !.posted = <<>>]
        m1 == IF listOk THEN Sending([m0 EXCEPT !.agents = r.agents], r.events) ELSE m0
        m2 == [m1 EXCEPT !.agents =
                  updateTasks(@, ListTasksOf(Missing(BareRepo), TreeOf(BareRepo)))]
        m3 == countCommitsAndNotify(m2, revOk, count, logOk, t)
        m4 == [m3 EXCEPT !.hasNewCommits = FALSE]
        r5 == clearStaleTasksAndNotify(m4,
                  ClearStaleTasksOf(Missing(BareRepo), TreeOf(BareRepo),
                                    Minutes(t), Minutes(staleTaskMaxAge)))
        m5 == Sending(r5.m, r5.events)
        r6 == checkAgentLogs(m5.agents, m5.lastErrorNotified, m5.logs, t)
        m6 == Sending([m5 EXCEPT !.lastErrorNotified = r6.last], r6.events)
        r7 == flushCommitBatch(m6, t)
    IN  [m |-> Sending(r7.m, r7.events), sync |-> m3.hasNewCommits]

\* monitor up to flushCommitBatch.  A failing call and a report that is not
\* the steady one are events of the environment; ok[w] is whether StartAgent
\* would succeed for worker w.
MonitorUpdate(gap, listOk, infos, ok, revOk, logOk) ==
    /\ dpc = "monitor" /\ dlog.pos = 1
    /\ mon.now + gap <= MaxClock
    /\ LET cost == (IF listOk THEN Deviations(mon.agents, infos) ELSE 1)
                   + Faults2(<<revOk, logOk>>)
           r == MonitorOf(mon, mon.now + gap, listOk, infos, ok, revOk,
                          Itoa(Len(upstream)) \o <<SP>>, logOk)
       IN  /\ budget >= cost
           /\ budget' = budget - cost
           /\ mon' = r.m
           /\ clone' = IF r.sync THEN [clone EXCEPT ![DirAgent] = syncRepos(@, upstream)]
                       ELSE clone
    /\ dstate' = [dstate EXCEPT !.Agents = Statuses(mon'.agents)]
    /\ dlog' = [dlog EXCEPT !.pos = 8]
    /\ UNCHANGED <<now, branch, upstream, call, ret, out,
                   fs, alive, dpc, wr, rd, containers, sig, cli>>

\* monitor: the uptime and d.writeState(), its error dropped.
MonitorPersist(io) ==
    /\ dpc = "monitor" /\ dlog.pos = 8
    /\ budget >= Faults2(<<io>>)
    /\ budget' = budget - Faults2(<<io>>)
    /\ dstate' = [dstate EXCEPT !.Uptime = UptimeSeconds(mon.now, mon.startedAt)]
    /\ fs' = WriteStateOf(fs, dstate', io)
    /\ dlog' = [dlog EXCEPT !.pos = 9]
    /\ UNCHANGED <<now, branch, upstream, clone, call, ret, out,
                   alive, dpc, wr, rd, containers, sig, mon, cli>>

\* monitor: the heartbeat file, its error dropped; monitor returns.
MonitorHeartbeat(io) ==
    /\ dpc = "monitor" /\ dlog.pos = 9
    /\ budget >= Faults2(<<io>>)
    /\ budget' = budget - Faults2(<<io>>)
    /\ mon' = [mon EXCEPT !.heartbeat = IF io THEN mon.now ELSE @,
                          !.listed = FALSE, !.infos = <<>>, !.started = {},
                          !.sent = <<>>, !.posted = <<>>]
    /\ dlog' = [dlog EXCEPT !.pos = 0]
    /\ dpc' = "select"
    /\ UNCHANGED <<now, branch, upstream, clone, call, ret, out,
                   fs, alive, dstate, wr, rd, containers, sig, cli>>

\* A worker's session writes its latest log, or begins a new one.
LogWrite(w, v) ==
    /\ budget > 0
    /\ mon.logs[w] # v
    /\ mon' = [mon EXCEPT !.logs[w] = v]
    /\ budget' = budget - 1
    /\ UNCHANGED <<now, branch, upstream, clone, call, ret, out, storeVars,
                   containers, sig, dlog, cli>>

(***************************************************************************)
(* SpecTick: a daemon in its loop, from the state Run has built: the       *)
(* ticks of monitor, the shutdown, and the environment: the runtime's      *)
(* listings, pushes to the upstream, the workers' logs.  The upstream      *)
(* holds a lock agent 1 took at time 0.  Each                              *)
(* sub-step reads its own part of the environment, once in a tick, so the  *)
(* pushes, the log writes and the signal are taken between two ticks; the  *)
(* select that finds a signal takes it, and a call of shutdown fails only  *)
(* in a run that has not spent its events.                                 *)
(***************************************************************************)
\* The deployments: without roles, webhook and logs; with roles, a webhook
\* and a failing test in worker 1's latest log.
RoleLists == {<<>>, <<"planner", "developer">>}

OldLock == [author |-> 1, tree |-> [SeedTree EXCEPT ![LockFile("t1")] = FormatLock(1, 0)]]

InitTick ==
    /\ now = 0
    /\ branch = "main"
    /\ upstream = <<SeedCommit, OldLock>>
    /\ clone = [a \in {DirAgent} |-> ProjectDir]
    /\ call = [a \in {DirAgent} |-> IdleCall]
    /\ ret = [a \in {DirAgent} |-> NoRet]
    /\ out = NoOut
    /\ budget = MaxEvents
    /\ \E pid \in {CHOOSE p \in Pids : TRUE} :
          /\ alive = {pid}
          /\ dstate = [Status |-> "running",
                       Agents |-> [w \in Workers |-> "running"],
                       Uptime |-> 0]
          /\ fs = [WriteStateOf([f \in Paths |-> NoFile], dstate, TRUE)
                      EXCEPT ![PidPath] = Itoa(pid)]
    /\ dpc = "select"
    /\ wr = IdleWrite
    /\ rd = IdleRead
    /\ containers = [w \in Workers |-> "up"]
    /\ sig = FALSE
    /\ cli = NoCli
    /\ dlog = [NoHist EXCEPT !.launched = StoreAgents]
    /\ \E roles \in RoleLists :
          mon = [NoMon EXCEPT
                    !.now = StartedAt, !.startedAt = StartedAt,
                    !.roles = roles, !.webhook = (roles # <<>>),
                    !.agents = [i \in Workers |-> StartedAgent(i, roles)],
                    !.logs = [w \in Workers |->
                                IF roles # <<>> /\ w = 1 THEN "error" ELSE "none"]]

NextTick ==
    \/ ~sig /\ MonitorBegin
    \/ /\ dpc = "monitor" /\ dlog.pos = 1
       /\ \E infos \in Listings(mon.agents, budget), gap \in Gaps,
             listOk, revOk, logOk \in BOOLEAN :
             \E ok \in {o \in [Workers -> BOOLEAN] : \A w \in RunningIds(infos) \cap Workers : o[w]} :
                MonitorUpdate(gap, listOk, infos, ok, revOk, logOk)
    \/ \E io \in BOOLEAN : MonitorPersist(io)
    \/ \E io \in BOOLEAN : MonitorHeartbeat(io)
    \/ dpc = "select" /\ \E c \in SyncContents : AgentPush(Notes, c)
    \/ dpc = "select" /\ \E w \in Workers, v \in LogStates : LogWrite(w, v)
    \/ dpc = "select" /\ Signal
    \/ \E stopOk \in BOOLEAN : (stopOk \/ budget > 0) /\ ShutdownStopAll(stopOk)
    \/ ShutdownSync
    \/ \E io \in BOOLEAN : (io \/ budget > 0) /\ ShutdownWrite(io)
    \/ ShutdownRemovePid

SpecTick == InitTick /\ [][NextTick]_vars


(***************************************************************************)
(* Properties of ListTasks and ClearStaleTasks (SpecDir).                  *)
(***************************************************************************)
LockNames == {LockFile(t) : t \in Tasks}

\* The record format "[agent-]<digits> <timestamp>", white space around it
\* allowed.
WellFormedRecord(c) ==
    LET s == TrimSpace(c)
        n == Len(s)
        from == IF n >= 1 /\ s[1] = AG THEN 2 ELSE 1
    IN  /\ n >= from + 2
        /\ \A i \in from..(n - 2) : s[i][1] = "digit"
        /\ s[n - 1] = SP
        /\ s[n][1] = "ts"

\* The time a well-formed record was claimed at, in clock ticks.
RecordTime(c) == LET s == TrimSpace(c) IN s[Len(s)][2] * Resolution

SeqRange(q) == {q[i] : i \in 1..Len(q)}

C7_ListTasksHardError ==
    out.op = "list" =>
        LET present == {n \in LockNames : out.before[n] # NoFile}
            bad == {n \in present : ~WellFormedRecord(out.before[n])}
        IN  /\ out.dir = BareRepo => (out.err = "none" /\ out.locks = <<>>)
            /\ (out.dir # BareRepo /\ bad # {}) => (out.err # "none" /\ out.locks = <<>>)
            /\ (out.dir # BareRepo /\ bad = {}) =>
                  /\ out.err = "none"
                  /\ Len(out.locks) = Cardinality(present)
                  /\ {LockFile(l.Name) : l \in SeqRange(out.locks)} = present
                  /\ \A l \in SeqRange(out.locks) :
                        l.ClaimedAt = RecordTime(out.before[LockFile(l.Name)])

\* A listing that failed although the first record of the directory is well
\* formed: the second one has a timestamp that does not parse.
C7_Witness ==
    /\ out.op = "list" /\ out.dir # BareRepo
    /\ WellFormedRecord(out.before[LockFile("t1")])
    /\ out.before[LockFile("t2")] = <<AG, D(1), SP, JUNK>>
    /\ out.err = "timestamp" /\ out.locks = <<>>

\* The directory without the files that are no lock files.
LocksOnly(tree) == [n \in Names |-> IF n \in LockNames THEN tree[n] ELSE NoFile]

\* C8 (ListTasks is read-only and repeatable): a ListTasks call changes no
\* file, index, history or remote; files without the .lock suffix neither
\* appear in its result nor change it; and a second call on the directory as
\* the first call left it returns the same result.
C8_ListTasksReadOnly ==
    [][(out'.op = "list" /\ out'.seq # out.seq) =>
          /\ clone' = clone /\ upstream' = upstream
          /\ out'.after = out'.before
          /\ \A d \in Dirs : out'.dir = d => out'.before = TreeOf(d)
          /\ \A l \in SeqRange(out'.locks) : l.Name \in Tasks
          /\ LET r == ListTasksOf(out'.dir = BareRepo, LocksOnly(out'.before))
             IN  out'.locks = r.locks /\ out'.err = r.err
          /\ (out.op = "list" /\ out.dir = out'.dir /\ out.after = out'.before) =>
                (out'.locks = out.locks /\ out'.err = out.err)]_vars

\* Two calls in a row listed a directory that also holds .gitkeep and a
\* notes file with the content of a lock.
C8_Witness ==
    /\ out.op = "list" /\ out.dir # BareRepo /\ out.seq = 0 /\ out.at > 0
    /\ out.before[Notes] = FormatLock(12, 0) /\ out.before[Gitkeep] = Empty
    /\ Len(out.locks) = 2

(***************************************************************************)
(* Properties of the state store (SpecStore).                              *)
(***************************************************************************)
StateFile == fs[StatePath]

\* The bytes are one complete snapshot.
Complete(data) == Unmarshal(data).ok /\ Marshal(Unmarshal(data).state) = data

\* C9 (atomic persistence): at every point of a WriteState call, and after
\* the writing process was killed at any point of it, state.json is absent
\* or holds one complete snapshot: the previous one until the rename, the
\* new one after it; a WriteState call that failed has left the previous
\* snapshot in place; and GetStatus never reads bytes that do not parse.
C9_AtomicPersistence ==
    /\ StateFile = NoFile \/ Complete(StateFile)
    /\ wr.pc \in {"write", "rename"} => StateFile = wr.prev
    /\ (wr.pc = "idle" /\ wr.err # "none") => StateFile = wr.prev
    /\ (wr.pc = "idle" /\ wr.err = "none" /\ wr.data # <<>>) => StateFile = wr.data
    /\ rd.pc = "check" => (rd.data = NoFile \/ Complete(rd.data))
    /\ rd.err # "parse"

\* The daemon was killed in the middle of writing the temporary file: a part
\* of the new snapshot is in state.json.tmp, the previous one in state.json.
C9_Witness ==
    /\ alive = {}
    /\ StateFile # NoFile
    /\ fs[TmpPath(StatePath)] # NoFile
    /\ Len(fs[TmpPath(StatePath)]) \in 2..3
    /\ ~Unmarshal(fs[TmpPath(StatePath)]).ok
    /\ fs[TmpPath(StatePath)][2] # StateFile[2]

\* The pid file names a process that exists.
MarkerAlive == fs[PidPath] # NoFile /\ \E p \in alive : fs[PidPath] = Itoa(p)

\* C10 (liveness downgrade on read): a GetStatus call that finds the pid file
\* missing or naming a process that does not exist returns status stopped
\* and no agent with status running, whatever state.json says; and GetStatus
\* changes no file.
C10_LivenessDowngrade ==
    [][(rd.pc = "check" /\ rd'.pc = "idle") =>
          /\ fs' = fs
          /\ (~MarkerAlive /\ rd'.err = "none") =>
                /\ rd'.state.Status = "stopped"
                /\ \A i \in DOMAIN rd'.state.Agents : rd'.state.Agents[i] # "running"]_vars

\* The states the daemon hands to WriteState.
ValidStates ==
    [Status : {"running", "stopped"},
     Agents : [1..StoreAgents -> AgentStatuses],
     Uptime : 0..MaxUptime]

\* C11 as stated (state round trip): a GetStatus call that reads the
\* snapshot a WriteState(S) call left in state.json returns a state equal
\* to S, for every valid S.
C11_StateRoundTrip ==
    [][(rd.pc = "check" /\ rd'.pc = "idle") =>
          \A S \in ValidStates :
             rd.data = Marshal(S) => (rd'.err = "none" /\ rd'.state = S)]_vars

\* C11 amended: GetStatus returns S when S does not say running or the pid
\* file names a live process; for an S that says running under a dead or
\* missing marker it returns S with status stopped and every running agent
\* stopped, all other fields as written.
C11_RoundTripUpToDowngrade ==
    [][(rd.pc = "check" /\ rd'.pc = "idle") =>
          \A S \in ValidStates :
             rd.data = Marshal(S) =>
                /\ rd'.err = "none"
                /\ rd'.state.Uptime = S.Uptime
                /\ Len(rd'.state.Agents) = Len(S.Agents)
                /\ (S.Status # "running" \/ MarkerAlive) => rd'.state = S
                /\ (S.Status = "running" /\ ~MarkerAlive) =>
                      /\ rd'.state.Status = "stopped"
                      /\ \A i \in 1..Len(S.Agents) :
                            rd'.state.Agents[i] =
                               IF S.Agents[i] = "running" THEN "stopped"
                               ELSE S.Agents[i]]_vars

\* GetStatus has returned, under a live daemon, the snapshot of a monitor
\* tick that state.json still holds: an agent exited, the uptime advanced.
C11_Witness ==
    /\ rd.pc = "idle" /\ rd.err = "none"
    /\ MarkerAlive
    /\ wr.pc = "idle" /\ wr.err = "none"
    /\ rd.state \in ValidStates
    /\ StateFile = Marshal(rd.state)
    /\ rd.state.Status = "running"
    /\ rd.state.Uptime > 0
    /\ \E i \in 1..StoreAgents : rd.state.Agents[i] = "exited"

(***************************************************************************)
(* Properties of the daemon's run (SpecDaemon).                            *)
(***************************************************************************)
\* The worker is reported non-live: ListAgents does not show it as up.
Down(w) == containers[w] # "up"

C13_OrphanScan ==
    [][(dlog.start = NoStart /\ dlog'.start # NoStart) =>
          LET s == dlog'.start IN
          /\ MarkerAlive =>
                /\ s.err = "already running"
                /\ s.listed = "no" /\ ~s.stopAll
                /\ containers' = containers
                /\ fs' = fs /\ alive' = alive /\ dpc' = dpc /\ dstate' = dstate
          /\ ~MarkerAlive =>
                /\ s.err = "none"
                /\ s.listed # "ok" => (~s.stopAll /\ containers' = containers)
                /\ s.listed = "ok" =>
                      /\ s.stopAll <=> (\E w \in Workers : containers[w] # "none")
                      /\ ~s.stopAll => containers' = containers
                      /\ \A w \in Workers : containers'[w] \in {"none", containers[w]}]_vars

\* A Start call was refused by a running daemon whose workers are up.
C13_Witness ==
    /\ dlog.start.err = "already running"
    /\ dpc = "select" /\ MarkerAlive
    /\ \A w \in Workers : containers[w] = "up"
    /\ StateFile # NoFile

\* The status a snapshot holds ("" for no file).
StatusOf(data) == IF data = NoFile THEN "" ELSE Unmarshal(data).state.Status

\* C14 (daemon lifecycle): every write that puts a snapshot into state.json
\* puts status running or stopped; running is persisted only by a daemon all of
\* whose N workers startAgents has launched; stopped is persisted only by
\* shutdown, after its StopAllAgents step; and once state.json says stopped
\* no later write of the run makes it say running.
C14_Lifecycle ==
    [][(StateFile' # StateFile /\ StateFile' # NoFile) =>
          /\ StatusOf(StateFile') \in {"running", "stopped"}
          /\ StatusOf(StateFile') = "running" =>
                /\ dlog.launched = StoreAgents
                /\ dpc \in {"writeInitial", "monitor"}
                /\ StatusOf(StateFile) # "stopped"
          /\ StatusOf(StateFile') = "stopped" =>
                /\ dpc = "shutdown"
                /\ dlog.pos > 1
                /\ StatusOf(StateFile) = "running"]_vars

\* Shutdown has persisted stopped over the running snapshot of a tick that
\* found worker 1 exited and could not restart it.
C14_Witness ==
    /\ dpc = "shutdown" /\ dlog.pos = 4 /\ ~dlog.werr
    /\ StatusOf(StateFile) = "stopped"
    /\ Unmarshal(StateFile).state.Agents[1] = "exited"

C16_PanicIsolation ==
    [][/\ (~dlog.panicked /\ dlog'.panicked) =>
            /\ dpc = "monitor" /\ dpc' = "select"
            /\ fs' = fs /\ alive' = alive
            /\ dstate'.Status = "running"
       /\ dlog'.panicked =>
            /\ alive' # {} /\ dstate'.Status = "running"
            /\ dpc' = "select"
            /\ Complete(StateFile') /\ StatusOf(StateFile') = "running"
            /\ StateFile' = StateFile]_vars

\* A tick panicked after ListAgents had found worker 1 exited: the state in
\* memory has moved on, state.json still holds the snapshot written before.
C16_Witness ==
    /\ dlog.panicked /\ dpc = "select"
    /\ dstate.Agents[1] # "running"
    /\ Unmarshal(StateFile).state.Agents[1] = "running"

(***************************************************************************)
(* Properties of the reconciliation (SpecSync).                            *)
(***************************************************************************)
\* The project directory and the upstream changed the same file since the
\* last merge, in different ways.
Conflicting ==
    LET p == clone[DirAgent]
        base == upstream[p.base].tree
    IN  \E n \in Names : /\ HeadTree(p.hist)[n] # base[n]
                         /\ HeadTree(upstream)[n] # base[n]
                         /\ HeadTree(p.hist)[n] # HeadTree(upstream)[n]

\* C17 (merge conflict): a SyncToProjectDir call made when the project
\* directory and the upstream have changed the same file differently
\* returns the merge-failed error and leaves the project directory as it
\* was: the same HEAD, index and working tree, no merge in progress, no
\* conflict markers; and a call that returns no error has left no merge in
\* progress either.
C17_ConflictAborted ==
    [][(ret[DirAgent] = NoRet /\ ret'[DirAgent].op = "sync") =>
          /\ Conflicting =>
                /\ ret'[DirAgent].err = "merge failed"
                /\ clone'[DirAgent] = clone[DirAgent]
                /\ upstream' = upstream
          /\ ~clone'[DirAgent].merging
          /\ \A n \in Names, a, b \in SyncContents \cup {NoFile} :
                clone'[DirAgent].wt[n] # ConflictMarkers(a, b)]_vars

\* SyncToProjectDir has returned merge failed for a real conflict (not a
\* refusal), with an uncommitted edit in another file of the project
\* directory, which is still there.
C17_Witness ==
    /\ ret[DirAgent].op = "sync" /\ ret[DirAgent].err = "merge failed"
    /\ ret[DirAgent].res = "conflict"
    /\ Conflicting
    /\ \E n \in SyncNames : clone[DirAgent].wt[n] # HeadTree(clone[DirAgent].hist)[n]

(***************************************************************************)
(* Properties of the daemon's run (SpecDaemon), continued.                 *)
(***************************************************************************)
\* C18 (no partial start): the step in which startAgents fails to launch a
\* worker ends the daemon process with no snapshot persisted and with none of
\* the workers it had already launched left up.
C18_NoPartialStart ==
    [][(dpc = "startAgents" /\ dpc' = "none") =>
          /\ alive' = {}
          /\ StateFile' = NoFile
          /\ \A w \in 1..dlog.launched : containers'[w] # "up"]_vars

\* C19 (sub-step isolation): a tick returns to the loop only from its last
\* sub-steps, the write of the snapshot and the heartbeat: whatever failed
\* before, the later sub-steps have run.
C19_SubStepIsolation ==
    [][(dpc = "monitor" /\ dpc' # "monitor") =>
          /\ MonitorSteps[dlog.pos] = "write"
          /\ dpc' = "select"]_vars

\* C20 (signals and ticks): a signal that arrives changes nothing but sigCh,
\* so the tick in progress goes on from where it was; a tick begins only
\* from the select of the loop and shutdown begins only from the select of
\* the loop with a signal waiting, so neither begins while a tick is in
\* progress; and a signal that has been received leads to shutdown.
C20_SignalBetweenTicks ==
    /\ [][/\ (~sig /\ sig') =>
               UNCHANGED <<dpc, dlog, dstate, fs, alive, containers>>
          /\ (dpc # "monitor" /\ dpc' = "monitor") => (dpc = "select" /\ dlog'.pos = 1)
          /\ (dpc = "monitor" /\ dpc' = "monitor") => dlog'.pos \in {dlog.pos, dlog.pos + 1}
          /\ (dpc # "shutdown" /\ dpc' = "shutdown") => (dpc = "select" /\ sig)
          /\ (sig /\ ~sig') => dpc' = "shutdown"]_vars
    /\ (sig ~> dpc = "shutdown")

\* A signal is waiting while a tick is in the middle of its sub-steps.
C20_Witness ==
    /\ sig /\ dpc = "monitor"
    /\ MonitorSteps[dlog.pos] = "stale"

(***************************************************************************)
(* Properties of one tick (SpecTick)                                       *)
(***************************************************************************)
\* The tick has done its sub-steps up to flushCommitBatch.
Updated == dpc = "monitor" /\ dlog.pos \in {8, 9}

\* The entry of the tick's listing for worker w, Absent when it has none.
ReportOf(w) ==
    LET k == InfoIndex(mon.infos, w)
    IN  IF k = 0 THEN Absent
        ELSE [ContainerID |-> mon.infos[k].ContainerID, Status |-> mon.infos[k].Status]

\* The status of worker w after the reconciliation and the restart of a
\* tick whose listing succeeded.
TickStatus(w) ==
    IF w \in mon.started THEN "running"
    ELSE IF ReportOf(w) = Absent THEN "stopped"
    ELSE IF ReportOf(w).Status = UpStatus THEN "running"
    ELSE IF ReportOf(w).Status = ExitedStatus THEN "exited"
    ELSE IF ReportOf(w).Status = CreatedStatus THEN "created"
    ELSE "unknown"

\* C21 (ordering inside a tick): the restart works on the reconciled
\* records, so after both a restarted worker is running and every other one
\* has the status of this tick's listing; the snapshot is persisted after
\* them, so a snapshot written in a tick whose listing succeeded holds these
\* statuses; and the heartbeat is written only by the step after the
\* snapshot's, so while the snapshot is not yet attempted the heartbeat is
\* still an earlier tick's.
C21_TickOrdering ==
    [][/\ (Updated' /\ mon'.listed) =>
             \A w \in Workers : mon'.agents[w].Status = TickStatus(w)'
       /\ StateFile' # StateFile =>
             \/ dpc = "shutdown"
             \/ /\ dpc = "monitor" /\ dlog.pos = 8 /\ dlog'.pos = 9
                /\ mon' = mon
                /\ Unmarshal(StateFile').ok
                /\ mon.listed =>
                      \A w \in Workers :
                         Unmarshal(StateFile').state.Agents[w] = TickStatus(w)
       /\ mon'.heartbeat # mon.heartbeat =>
             /\ dpc = "monitor" /\ dlog.pos = 9 /\ dpc' = "select"
             /\ mon'.heartbeat = mon.now
             /\ StateFile' = StateFile
       /\ (dpc' = "monitor" /\ dlog'.pos \in {1, 8}) => StateFile' = StateFile
      ]_vars

\* A tick whose listing showed worker 1 exited and worker 2 up restarted
\* worker 1 and has written the snapshot, with both running; the heartbeat
\* is not yet written.
C21_Witness ==
    /\ dpc = "monitor" /\ dlog.pos = 9
    /\ mon.listed /\ mon.started = {1}
    /\ ReportOf(1).Status = ExitedStatus
    /\ Unmarshal(StateFile).state.Agents = [w \in Workers |-> "running"]
    /\ Unmarshal(StateFile).state.Uptime = UptimeSeconds(mon.now, mon.startedAt)
    /\ mon.heartbeat # mon.now

\* A listing without its entries for ids that no agent of the fleet has.
FleetOnly(agents, infos) ==
    SelectSeq(infos, LAMBDA e : \E i \in DOMAIN agents : agents[i].ID = e.ID)

\* C22 (updateAgentStates): applied to the records of the fleet and the
\* listing of a tick, it gives every agent the listing reports the reported
\* container id and the status running, exited, created or unknown after
\* the reported status; it gives every agent the listing does not report
\* the status stopped and leaves its container id unchanged; it changes no
\* other field and adds no agent, and the entries for ids outside the fleet
\* make no difference.  The records of the agents the tick does not restart
\* are these.
C22_UpdateAgentStates ==
    [][(dpc = "monitor" /\ dlog.pos = 1 /\ Updated' /\ mon'.listed) =>
          LET infos == mon'.infos
              u == updateAgentStates(mon.agents, infos)
          IN  /\ DOMAIN u = DOMAIN mon.agents
              /\ \A i \in DOMAIN u :
                    LET a == mon.agents[i]
                        k == InfoIndex(infos, a.ID)
                    IN  /\ u[i].ID = a.ID /\ u[i].Role = a.Role
                        /\ u[i].CurrentTask = a.CurrentTask
                        /\ k # 0 =>
                              /\ u[i].ContainerID = infos[k].ContainerID
                              /\ u[i].Status =
                                    (CASE infos[k].Status = UpStatus -> "running"
                                       [] infos[k].Status = ExitedStatus -> "exited"
                                       [] infos[k].Status = CreatedStatus -> "created"
                                       [] OTHER -> "unknown")
                        /\ k = 0 =>
                              /\ u[i].Status = "stopped"
                              /\ u[i].ContainerID = a.ContainerID
                        /\ a.ID \notin mon'.started =>
                              /\ mon'.agents[i].ContainerID = u[i].ContainerID
                              /\ mon'.agents[i].Status = u[i].Status
              /\ u = updateAgentStates(mon.agents, FleetOnly(mon.agents, infos))
      ]_vars

\* The listing of a tick held no container of worker 2, which StartAgent
\* could not start again: worker 2 is stopped with the container id it had,
\* worker 1 is running.
C22_Witness ==
    /\ Updated /\ mon.listed
    /\ InfoIndex(mon.infos, 1) # 0
    /\ InfoIndex(mon.infos, 2) = 0 /\ 2 \notin mon.started
    /\ mon.agents[2].Status = "stopped"
    /\ mon.agents[2].ContainerID = FirstContainer
    /\ mon.agents[1].Status = "running"

\* The workers the tick's listing does not report as up.
NotUp == {w \in Workers : ReportOf(w) = Absent \/ ReportOf(w).Status # UpStatus}

\* The agent_crashed events of a sequence of events that are for worker w.
CrashedFor(events, w) ==
    SelectSeq(events, LAMBDA e : e.Type = "agent_crashed" /\ e.AgentID = w)

\* C23 (restart step): in a tick whose listing succeeded, the agents
\* restartCrashedAgents stops and then tries to start are exactly the
\* workers the listing does not report as up, whatever StartAgent answers,
\* each with its own id; a worker is started only if it was not up; a
\* started worker has the new container id and status running, keeps its id
\* and role, and exactly one agent_crashed event for it is given to
\* sendEvent; a worker that was not up and is not started has no
\* agent_crashed event and the record the reconciliation gave it; a live
\* worker has no event and the record the reconciliation gave it.
C23_RestartStep ==
    [][(dpc = "monitor" /\ dlog.pos = 1 /\ Updated' /\ mon'.listed) =>
          LET u == updateAgentStates(mon.agents, mon'.infos)
              down == NotUp'
          IN  /\ \A ok \in [Workers -> BOOLEAN] :
                    LET r == restartCrashedAgents(u, mon'.infos, ok)
                    IN  /\ r.stopped = down /\ r.tried = down
                        /\ r.started = {w \in down : ok[w]}
              /\ mon'.started \subseteq down
              /\ \A w \in Workers :
                    /\ mon'.agents[w].ID = w
                    /\ mon'.agents[w].Role = mon.agents[w].Role
                    /\ w \in mon'.started =>
                          /\ mon'.agents[w].ContainerID = NewContainer
                          /\ mon'.agents[w].Status = "running"
                          /\ Len(CrashedFor(mon'.sent, w)) = 1
                    /\ w \notin mon'.started =>
                          /\ mon'.agents[w].ContainerID = u[w].ContainerID
                          /\ mon'.agents[w].Status = u[w].Status
                          /\ CrashedFor(mon'.sent, w) = <<>>
      ]_vars

\* A tick found worker 1's container only created and started a new one;
\* worker 2 was up and is as it was; the webhook got the one event.
C23_Witness ==
    /\ Updated /\ mon.listed
    /\ ReportOf(1).Status = CreatedStatus /\ mon.started = {1}
    /\ mon.agents[1].ContainerID = NewContainer
    /\ mon.agents[2].ContainerID = FirstContainer
    /\ Len(mon.posted) = 1 /\ mon.posted[1].Type = "agent_crashed"

\* The tasks whose lock at the head of the upstream names agent id.
OwnedUpstream(id) ==
    {t \in Tasks :
        /\ UpstreamLock(t) # NoFile
        /\ parseLock(LockFile(t), UpstreamLock(t)).err = "none"
        /\ parseLock(LockFile(t), UpstreamLock(t)).lock.AgentID = id}

\* C24 (task attribution): after the sub-steps of a tick, an agent whose id
\* owns a lock of the upstream has as CurrentTask the name of a lock it owns,
\* and an agent that owns none has CurrentTask nil.
C24_TaskAttribution ==
    Updated =>
       \A i \in DOMAIN mon.agents :
          LET owned == OwnedUpstream(mon.agents[i].ID)
          IN  IF owned = {} THEN mon.agents[i].CurrentTask = NoTask
              ELSE \E t \in owned : mon.agents[i].CurrentTask = <<t>>

\* The commits_pushed events of a sequence of events.
Pushed(events) == SelectSeq(events, LAMBDA e : e.Type = "commits_pushed")

StaleUpstream(t) ==
    {task \in Tasks :
        /\ UpstreamLock(task) # NoFile
        /\ parseLock(LockFile(task), UpstreamLock(task)).err = "none"
        /\ Stale(Minutes(t), parseLock(LockFile(task), UpstreamLock(task)).lock.ClaimedAt,
                 Minutes(staleTaskMaxAge))}

\* The stale_lock events of a sequence of events that are for a task.
StaleFor(events, task) ==
    SelectSeq(events, LAMBDA e : e.Type = "stale_lock" /\ e.Details = task)

\* C26 (stale-lock step): a tick increases TasksCompleted by the number of
\* the upstream's locks that are older than 2 hours at the tick's time, and
\* gives sendEvent exactly one stale_lock event for each of them and none
\* for another task.
C26_StaleLockStep ==
    [][(dpc = "monitor" /\ dlog.pos = 1 /\ Updated') =>
          LET expired == StaleUpstream(mon'.now)
          IN  /\ mon'.stats.TasksCompleted =
                    mon.stats.TasksCompleted + Cardinality(expired)
              /\ \A task \in Tasks :
                    Len(StaleFor(mon'.sent, task)) = (IF task \in expired THEN 1 ELSE 0)
      ]_vars

\* The test_failure events of a sequence of events that are for worker w.
FailureFor(events, w) ==
    SelectSeq(events, LAMBDA e : e.Type = "test_failure" /\ e.AgentID = w)

\* Worker w was notified at some time, less than the cooldown before t.
InCooldown(last, w, t) == w \in DOMAIN last /\ t - last[w] < errorDebounceCooldown

\* C27 (test_failure debounce): lastErrorNotified holds, for every agent, the
\* time of its latest test_failure event.  In a tick at time t every agent
\* gets at most one test_failure event; an agent that gets one was never
\* notified before or was last notified at least 5 minutes before t, and its
\* time becomes t; an agent last notified less than 5 minutes before t gets
\* none, whatever its log holds, and its time stays; and an agent that is
\* not in its cooldown and whose latest log holds a failure gets its event,
\* whether or not another agent is in its cooldown.
C27_Debounce ==
    [][(dpc = "monitor" /\ dlog.pos = 1 /\ Updated') =>
          LET t == mon'.now
              last == mon.lastErrorNotified
          IN  \A w \in Workers :
                 LET n == Len(FailureFor(mon'.sent, w)) IN
                 /\ n <= 1
                 /\ n = 1 =>
                       /\ w \in DOMAIN last => t - last[w] >= errorDebounceCooldown
                       /\ w \in DOMAIN mon'.lastErrorNotified
                       /\ mon'.lastErrorNotified[w] = t
                 /\ n = 0 =>
                       /\ w \in DOMAIN mon'.lastErrorNotified <=> w \in DOMAIN last
                       /\ w \in DOMAIN last => mon'.lastErrorNotified[w] = last[w]
                 /\ InCooldown(last, w, t) => n = 0
                 /\ (~InCooldown(last, w, t) /\ mon.logs[w] = "error") => n = 1
      ]_vars

\* A tick reported worker 2's failing log while worker 1, whose log still
\* holds its failure, was in its cooldown and was not reported again.
C27_Witness ==
    /\ Updated
    /\ Len(FailureFor(mon.sent, 2)) = 1 /\ FailureFor(mon.sent, 1) = <<>>
    /\ mon.logs[1] = "error"
    /\ 1 \in DOMAIN mon.lastErrorNotified
    /\ mon.lastErrorNotified[1] < mon.now
    /\ mon.lastErrorNotified[2] = mon.now

C29_StatsMonotone ==
    [][/\ mon'.stats.TotalCommits >= mon.stats.TotalCommits
       /\ mon'.stats.TotalSessions >= mon.stats.TotalSessions
       /\ mon'.stats.TasksCompleted >= mon.stats.TasksCompleted
       /\ mon'.startedAt = mon.startedAt
       /\ (dpc = "monitor" /\ dlog.pos = 8 /\ dlog'.pos = 9) =>
             dstate'.Uptime = (mon.now - mon.startedAt) * 60
       /\ (dpc = "monitor" /\ dlog.pos = 1 /\ Updated') =>
             mon'.stats.TotalCommits \in {mon.stats.TotalCommits, Len(upstream)}
      ]_vars

\* A tick has counted the commit pushed after the tick before it, which had
\* counted the two commits the run began with, and the uptime is that of the
\* later tick.
C29_Witness ==
    /\ dpc = "monitor" /\ dlog.pos = 9
    /\ mon.stats.TotalCommits = 3 /\ mon.pendingCommits = <<3>>
    /\ dstate.Uptime = (mon.now - mon.startedAt) * 60
    /\ dstate.Uptime >= 120

(***************************************************************************)
(* Properties of Start and the readers of state.json (SpecDaemon)          *)
(***************************************************************************)
\* The child process of Start has not yet persisted its initial state.
Starting == dpc \in {"build", "startAgents", "writeInitial"}

\* C30 (no stale snapshot): a Start call that launches a daemon leaves no
\* state.json, whatever the run before had left; while the new daemon has
\* not persisted its initial state there is no state.json and GetStatus
\* fails with the error of reading the file; the first state.json after the
\* launch is written by the new daemon, with status running; and a Start
\* call whose scan succeeded returns nil only when state.json is there,
\* written by the daemon it launched.
C30_NoStaleSnapshot ==
    /\ [](Starting =>
             /\ StateFile = NoFile
             /\ GetStatusOf(StateFile, IsRunning(fs, alive)) =
                   [err |-> "read", state |-> NoState])
    /\ [][/\ (dlog.start = NoStart /\ dlog'.start # NoStart
                 /\ dlog'.start.err = "none") =>
                /\ StateFile' = NoFile /\ Starting'
          /\ (StateFile = NoFile /\ StateFile' # NoFile) =>
                /\ dpc = "writeInitial" /\ dpc' = "select"
                /\ StateFile' = Marshal(dstate)
                /\ StatusOf(StateFile') = "running"
          /\ (dlog.start # NoStart /\ dlog.start.err = "none"
                 /\ dlog'.start = NoStart /\ StartPoll(fs, alive) = "nil") =>
                /\ ~Starting
                /\ Complete(StateFile)
                /\ dlog.launched = StoreAgents
         ]_vars

\* A Start call found the workers an earlier run had left, stopped them and
\* launched a daemon, which is starting its workers: there is no state.json
\* and the call still waits.
C30_Witness ==
    /\ dlog.start.err = "none" /\ dlog.start.stopAll
    /\ dpc = "startAgents" /\ dlog.launched = 1
    /\ StateFile = NoFile
    /\ StartPoll(fs, alive) = "wait"

(***************************************************************************)
(* Further properties of ClaimTask (Spec, SpecRace)                        *)
(***************************************************************************)
\* The upstream's head holds a record of task t that names an agent other
\* than a.
HeldByOther(t, a) ==
    /\ UpstreamLock(t) # NoFile
    /\ parseLock(LockFile(t), UpstreamLock(t)).err = "none"
    /\ parseLock(LockFile(t), UpstreamLock(t)).lock.AgentID # a

\* C32 (a lost claim is a real conflict): when ClaimTask(t, a) returns lost,
\* the upstream holds a lock record of t owned by an agent other than a.
C32_LostMeansConflict ==
    [][\A a \in Agents :
          \A t \in Tasks :
             (call[a].pc = "claim_pull" /\ call[a].task = t /\ call'[a].pc = "idle") =>
                 (UpstreamLock(t) = UpstreamLock(t)' /\ HeldByOther(t, a))]_vars

\* The commits of a history whose tree holds content as the record of task t.
Publishing(hist, t, content) ==
    {k \in DOMAIN hist : hist[k].tree[LockFile(t)] = content}

\* C33 (nothing left of a claim that was not won): when ClaimTask(t, a)
\* returns lost or an error, the working tree and the index of a's clone do
\* not hold the record the call wrote for t, and no commit of the clone that
\* is not upstream holds it.
C33_NotWonLeavesNothing ==
    [][\A a \in Agents :
          (ret'[a] # ret[a] /\ ret'[a].op = "claim" /\ ret'[a].res # "won") =>
              LET t == ret'[a].task
                  content == ret'[a].content
                  c == clone'[a]
              IN  /\ c.wt[LockFile(t)] # content
                  /\ c.idx[LockFile(t)] # content
                  /\ Publishing(c.hist, t, content) \subseteq
                        Publishing(upstream', t, content)]_vars

\* The files a ClearStaleTasks call deleted.
Deleted(o) == {n \in Names : o.before[n] # NoFile /\ o.after[n] = NoFile}

\* C34 (ClearStaleTasks is all-or-nothing): a ClearStaleTasks call that
\* returns an error has deleted no file, and in every case the lock files a
\* call deleted are those of the task names it returns.
C34_ClearAllOrNothing ==
    [][(out'.op = "clear" /\ out'.seq # out.seq) =>
          /\ out'.err # "none" => Deleted(out') = {}
          /\ Deleted(out') = {LockFile(t) : t \in SeqRange(out'.cleared)}]_vars


\* C35 (a stopped state has no running agent): whenever GetStatus returns a
\* state with status stopped, no agent in that state has status running,
\* both when the persisted snapshot says running with a dead marker and after
\* a clean shutdown, where the persisted snapshot itself says stopped.
C35_StoppedHasNoRunning ==
    (rd.pc = "idle" /\ rd.err = "none" /\ rd.state.Status = "stopped") =>
        \A i \in DOMAIN rd.state.Agents : rd.state.Agents[i] # "running"


(***************************************************************************)
(* Further properties of the tick and of shutdown (SpecTick).              *)
(***************************************************************************)
\* C37 (no commit notification is lost): every commit subject accumulated
\* into the pending batch is included in a commits_pushed notification, also
\* when the daemon is signalled and shuts down while a batch is pending: a
\* daemon that has ended has no subject left in its pending batch.
C37_NoPendingAtExit ==
    dpc = "none" => mon.pendingCommits = <<>>


\* The agent_crashed events of a sequence of events.
Crashed(events) == SelectSeq(events, LAMBDA e : e.Type = "agent_crashed")

\* The sub-steps of monitor after the listing, applied at time t to the
\* daemon m0 in the order of monitor's body.
AfterListing(m0, t, revOk, count, logOk) ==
    LET m2 == [m0 EXCEPT !.agents =
                  updateTasks(@, ListTasksOf(Missing(BareRepo), TreeOf(BareRepo)))]
        m4 == [countCommitsAndNotify(m2, revOk, count, logOk, t) EXCEPT !.hasNewCommits = FALSE]
        r5 == clearStaleTasksAndNotify(m4,
                  ClearStaleTasksOf(Missing(BareRepo), TreeOf(BareRepo),
                                    Minutes(t), Minutes(staleTaskMaxAge)))
        m5 == Sending(r5.m, r5.events)
        r6 == checkAgentLogs(m5.agents, m5.lastErrorNotified, m5.logs, t)
        m6 == Sending([m5 EXCEPT !.lastErrorNotified = r6.last], r6.events)
        r7 == flushCommitBatch(m6, t)
    IN  Sending(r7.m, r7.events)

\* C39 (a failed listing): if ListAgents fails in a tick, the tick changes
\* no agent's status or container id, starts no worker and sends no
\* agent_crashed event, and no container is stopped or started; the other
\* sub-steps (updateTasks, countCommitsAndNotify, clearStaleTasksAndNotify,
\* checkAgentLogs, flushCommitBatch) run on the unchanged records; and the
\* steps that follow write the state and then the heartbeat, each unless its
\* own write fails.
C39_ListingFailure ==
    [][/\ (dpc = "monitor" /\ dlog.pos = 1 /\ Updated' /\ ~mon'.listed) =>
             /\ \A i \in DOMAIN mon.agents :
                   /\ mon'.agents[i].Status = mon.agents[i].Status
                   /\ mon'.agents[i].ContainerID = mon.agents[i].ContainerID
             /\ DOMAIN mon'.agents = DOMAIN mon.agents
             /\ mon'.started = {} /\ mon'.infos = <<>>
             /\ Crashed(mon'.sent) = <<>>
             /\ containers' = containers
             /\ dstate'.Agents = dstate.Agents
             /\ \E revOk, logOk \in BOOLEAN :
                   mon' = AfterListing([mon EXCEPT !.now = mon'.now, !.listed = FALSE,
                                                   !.infos = <<>>, !.started = {},
                                                   !.sent = <<>>, !.posted = <<>>],
                                       mon'.now, revOk, Itoa(Len(upstream)) \o <<SP>>, logOk)
       /\ (Updated /\ ~mon.listed /\ dlog.pos = 8) =>
             /\ dpc' = "monitor" /\ dlog'.pos = 9
             /\ fs'[StatePath] = Marshal(dstate') \/ budget' < budget
             /\ dstate'.Agents = dstate.Agents
       /\ (Updated /\ ~mon.listed /\ dlog.pos = 9) =>
             /\ dpc' = "select"
             /\ mon'.heartbeat = mon.now \/ budget' < budget
             /\ mon'.agents = mon.agents]_vars

\* The listing of a tick failed while worker 1's log held an error: the
\* records are as they were, the commits were counted, the test_failure
\* event was sent and the state of that tick is written.
C39_Witness ==
    /\ Updated /\ dlog.pos = 9 /\ ~mon.listed
    /\ \A w \in Workers : mon.agents[w].Status = "running"
                          /\ mon.agents[w].ContainerID = FirstContainer
    /\ mon.stats.TotalCommits = Len(upstream)
    /\ \E k \in DOMAIN mon.sent : mon.sent[k].Type = "test_failure"
    /\ fs[StatePath] = Marshal(dstate)


(***************************************************************************)
(* SpecReconcile: updateAgentStates and restartCrashedAgents applied to    *)
(* the fleet and a listing that may hold several containers with the same  *)
(* agent-id label.                                                         *)
(***************************************************************************)
MaxInfos == 3

\* The AgentInfo of a container labelled with a worker's id.
WorkerInfos ==
    [ID : Workers, ContainerID : {FirstContainer, OtherContainer},
     Status : {UpStatus, ExitedStatus}]

\* What ListAgents may return: one AgentInfo per container, in the order of
\* the runtime's list, no container listed twice.
RuntimeListings ==
    {l \in UNION {[1..n -> WorkerInfos] : n \in 0..MaxInfos} :
        \A j, k \in DOMAIN l : l[j].ContainerID = l[k].ContainerID => j = k \/ l[j].ID # l[k].ID}

InitReconcile ==
    /\ now = 0
    /\ branch = "main"
    /\ upstream = <<SeedCommit>>
    /\ clone = [a \in {DirAgent} |-> ProjectDir]
    /\ call = [a \in {DirAgent} |-> IdleCall]
    /\ ret = [a \in {DirAgent} |-> NoRet]
    /\ out = NoOut
    /\ budget = 0
    /\ alive = {CHOOSE p \in Pids : TRUE}
    /\ dstate = [Status |-> "running", Agents |-> [w \in Workers |-> "running"], Uptime |-> 0]
    /\ fs = [WriteStateOf([f \in Paths |-> NoFile], dstate, TRUE)
                EXCEPT ![PidPath] = Itoa(CHOOSE p \in Pids : TRUE)]
    /\ dpc = "monitor"
    /\ wr = IdleWrite
    /\ rd = IdleRead
    /\ containers = [w \in Workers |-> "up"]
    /\ sig = FALSE
    /\ cli = NoCli
    /\ dlog = [NoHist EXCEPT !.launched = StoreAgents, !.pos = 1]
    /\ \E infos \in RuntimeListings :
          mon = [NoMon EXCEPT
                    !.now = StartedAt, !.startedAt = StartedAt,
                    !.agents = [i \in Workers |-> StartedAgent(i, <<>>)],
                    !.logs = [w \in Workers |-> "none"],
                    !.listed = TRUE, !.infos = infos]

\* monitor's else branch after ListAgents: d.updateAgentStates(agents) and
\* d.restartCrashedAgents(ctx, agents); ok[w] is whether StartAgent succeeds.
ReconcileStep(ok) ==
    /\ dpc = "monitor" /\ dlog.pos = 1 /\ mon.listed
    /\ LET r == Reconcile(mon.agents, mon.infos, ok)
       IN  mon' = Sending([mon EXCEPT !.agents = r.agents, !.started = r.started], r.events)
    /\ dstate' = [dstate EXCEPT !.Agents = Statuses(mon'.agents)]
    /\ dlog' = [dlog EXCEPT !.pos = 2]
    /\ UNCHANGED <<fs, alive, dpc, wr, rd, containers, sig, cli, lockVars>>

NextReconcile == \E ok \in [Workers -> BOOLEAN] : ReconcileStep(ok)

SpecReconcile == InitReconcile /\ [][NextReconcile]_vars

\* C38 (the restart decision agrees with the reconciled status): in a tick
\* whose listing succeeded, restartCrashedAgents tries to restart a worker
\* if and only if the status updateAgentStates gave it is not running, also
\* when the listing holds more than one container for the same id; and when
\* every StartAgent succeeds every agent has status running after the step.
C38_RestartAgreesWithStatus ==
    [][(dpc = "monitor" /\ dlog.pos = 1 /\ dlog'.pos = 2) =>
          LET u == updateAgentStates(mon.agents, mon.infos)
          IN  /\ \A ok \in [Workers -> BOOLEAN] :
                    \A i \in DOMAIN u :
                       u[i].ID \in restartCrashedAgents(u, mon.infos, ok).tried
                          <=> u[i].Status # "running"
              /\ (\A i \in DOMAIN u : u[i].Status # "running" => u[i].ID \in mon'.started)
                    => \A i \in DOMAIN mon'.agents : mon'.agents[i].Status = "running"]_vars


(***************************************************************************)
(* SpecStopAll: one StopAllAgents call, goroutine by goroutine, on a       *)
(* runtime that holds any containers of the project.                       *)
(***************************************************************************)
\* StopAllAgents returning after the first goroutine has finished.
StopAllReturn_FirstDone ==
    /\ cli.fan.pc = "wait"
    /\ \E w \in Workers : cli.fan.go[w].pc = "done"
    /\ cli' = [cli EXCEPT !.fan.pc = "returned",
                          !.fan.err = IF cli.fan.errs = <<>> THEN "none" ELSE "errors"]
    /\ UNCHANGED <<containers, sig, dlog, mon, storeVars, lockVars>>

\* StopAllAgents: listProjectContainers; its error is returned at once, else
\* wg.Add(1) and a goroutine for every container listed.
StopAllBegin(listOk) ==
    /\ cli.fan.pc = "idle"
    /\ cli' = [cli EXCEPT !.fan =
                 IF listOk
                 THEN [pc |-> "wait",
                       go |-> [w \in Workers |->
                                 IF containers[w] # "none" THEN [NoGo EXCEPT !.pc = "stop"]
                                 ELSE NoGo],
                       errs |-> <<>>, err |-> "none"]
                 ELSE [@ EXCEPT !.pc = "returned", !.err = "list"]]
    /\ UNCHANGED <<containers, sig, dlog, mon, storeVars, lockVars>>

\* A goroutine's ContainerStop; its error is appended to errs under the
\* mutex and the goroutine returns.
GoStop(w, ok) ==
    /\ cli.fan.go[w].pc = "stop"
    /\ containers' = IF ok THEN [containers EXCEPT ![w] = "exited"] ELSE containers
    /\ cli' = IF ok
              THEN [cli EXCEPT !.fan.go[w] = [pc |-> "remove", stop |-> "ok", remove |-> "none"]]
              ELSE [cli EXCEPT !.fan.go[w] = [pc |-> "done", stop |-> "failed", remove |-> "none"],
                               !.fan.errs = Append(@, <<"stop", w>>)]
    /\ UNCHANGED <<sig, dlog, mon, storeVars, lockVars>>

\* A goroutine's ContainerRemove after its stop; its error is appended to
\* errs; wg.Done.
GoRemove(w, ok) ==
    /\ cli.fan.go[w].pc = "remove"
    /\ containers' = IF ok THEN [containers EXCEPT ![w] = "none"] ELSE containers
    /\ cli' = [cli EXCEPT !.fan.go[w].pc = "done",
                          !.fan.go[w].remove = IF ok THEN "ok" ELSE "failed",
                          !.fan.errs = IF ok THEN @ ELSE Append(@, <<"remove", w>>)]
    /\ UNCHANGED <<sig, dlog, mon, storeVars, lockVars>>

\* wg.Wait() has returned: every goroutine has called wg.Done.  The error
\* joins errs, nil when it is empty.
StopAllReturn ==
    /\ cli.fan.pc = "wait"
    /\ \A w \in Workers : cli.fan.go[w].pc \in {"idle", "done"}
    /\ cli' = [cli EXCEPT !.fan.pc = "returned",
                          !.fan.err = IF cli.fan.errs = <<>> THEN "none" ELSE "errors"]
    /\ UNCHANGED <<containers, sig, dlog, mon, storeVars, lockVars>>

InitStopAll ==
    /\ StoreIdle /\ LockIdle
    /\ containers \in [Workers -> {"none", "up", "exited"}]
    /\ sig = FALSE
    /\ dlog = NoHist
    /\ mon = NoMon
    /\ cli = NoCli

NextStopAll ==
    \/ \E listOk \in BOOLEAN : StopAllBegin(listOk)
    \/ \E w \in Workers, ok \in BOOLEAN : GoStop(w, ok)
    \/ \E w \in Workers, ok \in BOOLEAN : GoRemove(w, ok)
    \/ StopAllReturn

SpecStopAll == InitStopAll /\ [][NextStopAll]_vars

\* The workers whose goroutine was started.
Spawned == {w \in Workers : cli.fan.go[w].pc # "idle"}

\* C31 (StopAllAgents fans out and joins): a goroutine is started for every
\* container listed; the call returns only when each of them has finished
\* its stop and, if the stop succeeded, its remove; a failed attempt for one
\* worker leaves the attempts for the others to run; the call returns an
\* error exactly when an attempt failed, with one entry per failed attempt;
\* and a container whose stop failed is not removed.
C31_FanOutJoin ==
    /\ cli.fan.pc = "wait" =>
          /\ Spawned = {w \in Workers : containers[w] # "none" \/ cli.fan.go[w].remove = "ok"}
          /\ \A w \in Spawned : cli.fan.go[w].stop = "failed" => cli.fan.go[w].pc = "done"
    /\ \A w \in Workers :
          /\ cli.fan.go[w].stop = "failed" =>
                cli.fan.go[w].remove = "none" /\ containers[w] # "none"
          /\ cli.fan.go[w].remove # "none" => cli.fan.go[w].stop = "ok"
          /\ cli.fan.go[w].remove = "ok" <=> (w \in Spawned /\ containers[w] = "none")
    /\ (cli.fan.pc = "returned" /\ cli.fan.err # "list") =>
          /\ \A w \in Spawned :
                /\ cli.fan.go[w].pc = "done"
                /\ cli.fan.go[w].stop \in {"ok", "failed"}
                /\ cli.fan.go[w].stop = "ok" => cli.fan.go[w].remove \in {"ok", "failed"}
          /\ cli.fan.err # "none" <=>
                \E w \in Spawned : "failed" \in {cli.fan.go[w].stop, cli.fan.go[w].remove}
          /\ Len(cli.fan.errs) =
                Cardinality({w \in Spawned : "failed" \in {cli.fan.go[w].stop, cli.fan.go[w].remove}})
          /\ \A w \in Spawned :
                /\ cli.fan.go[w].stop = "failed" <=>
                      \E k \in DOMAIN cli.fan.errs : cli.fan.errs[k] = <<"stop", w>>
                /\ cli.fan.go[w].remove = "failed" <=>
                      \E k \in DOMAIN cli.fan.errs : cli.fan.errs[k] = <<"remove", w>>
    /\ (cli.fan.pc = "returned" /\ cli.fan.err = "list") => Spawned = {}

\* The call has returned an error: worker 1's stop failed and its container
\* is still there, worker 2's container was stopped and removed.
C31_Witness ==
    /\ cli.fan.pc = "returned" /\ cli.fan.err = "errors"
    /\ cli.fan.go[1].stop = "failed" /\ containers[1] = "up"
    /\ cli.fan.go[2].remove = "ok" /\ containers[2] = "none"
    /\ cli.fan.errs = <<<<"stop", 1>>>>


(***************************************************************************)
(* SpecStarts: two command-line processes call Start on the same project   *)
(* directory; the daemon processes they launch come up or end.             *)
(***************************************************************************)
\* cmd.Process.Pid of the child a caller's cmd.Start creates.
ChildPid(c) == CHOOSE p \in Pids : Cardinality({q \in Pids : q < p}) = c - 1

\* Start: cleanOrphans; its error is returned.
StartScan(c, reach, listOk, stopOk) ==
    /\ cli.start[c].pc = "idle"
    /\ LET r == cleanOrphans(fs, alive, containers, reach, listOk, stopOk)
       IN  /\ containers' = r.containers
           /\ cli' = [cli EXCEPT !.start[c] =
                        IF r.err # "none" THEN [pc |-> "returned", err |-> r.err]
                        ELSE [pc |-> "launch", err |-> "none"]]
    /\ UNCHANGED <<sig, dlog, mon, storeVars, lockVars>>

\* Start: os.Remove(statePath), then cmd.Start() creates the child process.
StartLaunch(c) ==
    /\ cli.start[c].pc = "launch"
    /\ fs' = [fs EXCEPT ![StatePath] = NoFile]
    /\ alive' = alive \cup {ChildPid(c)}
    /\ cli' = [cli EXCEPT !.start[c].pc = "pidfile"]
    /\ UNCHANGED <<dpc, dstate, wr, rd, containers, sig, dlog, mon, lockVars>>

\* Start: os.WriteFile(pidPath, strconv.Itoa(cmd.Process.Pid)).
StartWritePid(c) ==
    /\ cli.start[c].pc = "pidfile"
    /\ fs' = [fs EXCEPT ![PidPath] = Itoa(ChildPid(c))]
    /\ cli' = [cli EXCEPT !.start[c].pc = "poll"]
    /\ UNCHANGED <<alive, dpc, dstate, wr, rd, containers, sig, dlog, mon, lockVars>>

\* Start's polling loop ends: nil when state.json is there, the error when
\* the caller's child is gone.
StartPolled(c) ==
    /\ cli.start[c].pc = "poll"
    /\ LET p == StartPoll(fs, alive \cap {ChildPid(c)})
       IN  /\ p # "wait"
           /\ cli' = [cli EXCEPT !.start[c] =
                        [pc |-> "returned", err |-> IF p = "nil" THEN "none" ELSE "exited"]]
    /\ UNCHANGED <<containers, sig, dlog, mon, storeVars, lockVars>>

\* Run in a child process: BuildImage and startAgents succeed and the
\* initial state is written.
ChildReady(p) ==
    /\ p \in alive
    /\ fs[StatePath] = NoFile
    /\ fs' = WriteStateOf(fs, [Status |-> "running",
                               Agents |-> [w \in Workers |-> "running"],
                               Uptime |-> 0], TRUE)
    /\ containers' = [w \in Workers |-> "up"]
    /\ UNCHANGED <<alive, dpc, dstate, wr, rd, sig, dlog, mon, cli, lockVars>>

\* Run in a child process returns an error before its loop: the process
\* ends and its pid file stays.
ChildExit(p) ==
    /\ p \in alive
    /\ alive' = alive \ {p}
    /\ UNCHANGED <<fs, dpc, dstate, wr, rd, containers, sig, dlog, mon, cli, lockVars>>

InitStarts ==
    /\ StoreIdle /\ LockIdle
    /\ \E c \in {"none", "exited"} : containers = [w \in Workers |-> c]
    /\ sig = FALSE
    /\ dlog = NoHist
    /\ mon = NoMon
    /\ cli = NoCli

NextStarts ==
    \/ \E c \in Callers, reach, listOk, stopOk \in BOOLEAN : StartScan(c, reach, listOk, stopOk)
    \/ \E c \in Callers : StartLaunch(c)
    \/ \E c \in Callers : StartWritePid(c)
    \/ \E c \in Callers : StartPolled(c)
    \/ \E p \in Pids : ChildReady(p)
    \/ \E p \in Pids : ChildExit(p)

SpecStarts == InitStarts /\ [][NextStarts]_vars

\* C36 (at most one daemon per project): in every interleaving of two
\* concurrent Start calls on the same project directory at most one daemon
\* process is launched and left running.
C36_AtMostOneDaemon ==
    Cardinality(alive) <= 1


(***************************************************************************)
(* SpecStop: one Stop call, step by step, while the daemon runs its loop   *)
(* and its shutdown.                                                       *)
(***************************************************************************)
\* Stop returning from its waiting loop without os.Remove(pidPath).
StopRemove_MarkerKept ==
    /\ cli.stop.pc = "remove"
    /\ cli' = [cli EXCEPT !.stop.pc = "returned"]
    /\ UNCHANGED <<containers, sig, dlog, mon, storeVars, lockVars>>

\* Stop: readPID(pidPath); its error is returned.
StopRead ==
    /\ cli.stop.pc = "idle"
    /\ LET pid == readPID(fs)
       IN  cli' = [cli EXCEPT !.stop =
                     IF pid.ok THEN [@ EXCEPT !.pc = "signal", !.pid = pid.val]
                     ELSE [@ EXCEPT !.pc = "returned", !.err = "pid"]]
    /\ UNCHANGED <<containers, sig, dlog, mon, storeVars, lockVars>>

\* Stop: proc.Signal(SIGTERM).  It fails when the process is gone: the pid
\* file is removed and the error returned.  Else the signal waits in sigCh
\* once signal.Notify is in force, and ends a daemon that is still starting.
StopSignal ==
    /\ cli.stop.pc = "signal"
    /\ IF ~processAlive(cli.stop.pid, alive)
       THEN /\ fs' = [fs EXCEPT ![PidPath] = NoFile]
            /\ cli' = [cli EXCEPT !.stop.pc = "returned", !.stop.err = "signal"]
            /\ UNCHANGED <<alive, dpc, dstate, sig>>
       ELSE /\ cli' = [cli EXCEPT !.stop.pc = "poll"]
            /\ IF dpc \in {"select", "monitor", "shutdown"}
               THEN /\ sig' = (sig \/ dpc # "shutdown")
                    /\ UNCHANGED <<alive, dpc, dstate>>
               ELSE /\ alive' = alive \ {cli.stop.pid}
                    /\ dpc' = "none"
                    /\ dstate' = NoState
                    /\ UNCHANGED sig
            /\ UNCHANGED fs
    /\ UNCHANGED <<wr, rd, containers, dlog, mon, lockVars>>

\* Stop's waiting loop: the process is gone, or the deadline of
\* shutdownTimeout has passed while it is still there.
StopPoll(timeout) ==
    /\ cli.stop.pc = "poll"
    /\ ~processAlive(cli.stop.pid, alive) \/ timeout
    /\ cli' = [cli EXCEPT !.stop.pc =
                 IF ~processAlive(cli.stop.pid, alive) THEN "remove" ELSE "kill"]
    /\ UNCHANGED <<containers, sig, dlog, mon, storeVars, lockVars>>

\* Stop: proc.Signal(SIGKILL), its error dropped, and the second of sleep.
StopKill ==
    /\ cli.stop.pc = "kill"
    /\ alive' = alive \ {cli.stop.pid}
    /\ dpc' = IF cli.stop.pid \in alive THEN "none" ELSE dpc
    /\ dstate' = IF cli.stop.pid \in alive THEN NoState ELSE dstate
    /\ sig' = IF cli.stop.pid \in alive THEN FALSE ELSE sig
    /\ dlog' = IF cli.stop.pid \in alive THEN [dlog EXCEPT !.pos = 0] ELSE dlog
    /\ cli' = [cli EXCEPT !.stop.pc = "remove", !.stop.killed = TRUE]
    /\ UNCHANGED <<fs, wr, rd, containers, mon, lockVars>>

\* Stop: os.Remove(pidPath), its error dropped; return nil.
StopRemove ==
    /\ cli.stop.pc = "remove"
    /\ fs' = [fs EXCEPT ![PidPath] = NoFile]
    /\ cli' = [cli EXCEPT !.stop.pc = "returned"]
    /\ UNCHANGED <<alive, dpc, dstate, wr, rd, containers, sig, dlog, mon, lockVars>>

\* The project directory when Stop is called: no daemon and no pid file, a
\* pid file left by a daemon that is gone, a daemon that is starting, or a
\* daemon in its loop.
InitStop ==
    /\ LockIdle
    /\ wr = IdleWrite /\ rd = IdleRead
    /\ sig = FALSE
    /\ mon = NoMon
    /\ cli = NoCli
    /\ \E pid \in {CHOOSE p \in Pids : TRUE}, at \in {"absent", "stale", "build", "select"} :
          LET st == [Status |-> "running", Agents |-> [w \in Workers |-> "running"],
                     Uptime |-> 0]
              marker == [[f \in Paths |-> NoFile] EXCEPT ![PidPath] = Itoa(pid)]
          IN  /\ alive = IF at \in {"build", "select"} THEN {pid} ELSE {}
              /\ dpc = IF at \in {"build", "select"} THEN at ELSE "none"
              /\ dstate = IF at = "select" THEN st ELSE NoState
              /\ fs = CASE at = "absent" -> [f \in Paths |-> NoFile]
                        [] at = "select" -> WriteStateOf(marker, st, TRUE)
                        [] OTHER -> marker
              /\ containers = [w \in Workers |-> IF at = "select" THEN "up" ELSE "none"]
              /\ dlog = IF at = "select" THEN [NoHist EXCEPT !.launched = StoreAgents]
                        ELSE NoHist

NextStop ==
    \/ StopRead
    \/ StopSignal
    \/ \E timeout \in BOOLEAN : StopPoll(timeout)
    \/ StopKill
    \/ StopRemove
    \/ \E ok \in BOOLEAN : BuildImage(ok)
    \/ \E ok \in BOOLEAN : startAgents(ok)
    \/ \E io \in BOOLEAN : WriteInitialState(io)
    \/ MonitorBegin
    \/ \E listOk \in BOOLEAN, res \in [Workers -> {"up", "none", "same"}] :
          MonitorList(listOk, res)
    \/ MonitorSubStep
    \/ \E io \in BOOLEAN : MonitorWrite(io)
    \/ \E stopOk \in BOOLEAN : ShutdownStopAll(stopOk)
    \/ ShutdownSync
    \/ \E io \in BOOLEAN : ShutdownWrite(io)
    \/ ShutdownRemovePid

SpecStop == InitStop /\ [][NextStop]_vars

\* C40 (Stop leaves no marker): once Stop has returned without error the pid
\* file is absent and IsRunning reports false, whether the daemon ended on
\* SIGTERM within the wait or was killed after it, and however the daemon's
\* own os.Remove(pidPath) in shutdown interleaves with Stop's.
C40_StopLeavesNoMarker ==
    (cli.stop.pc = "returned" /\ cli.stop.err = "none") =>
        /\ fs[PidPath] = NoFile
        /\ ~IsRunning(fs, alive)
        /\ ~processAlive(cli.stop.pid, alive)

\* Stop has returned nil after its SIGKILL: the daemon had written its final
\* state but not yet removed its pid file.
C40_Witness ==
    /\ cli.stop.pc = "returned" /\ cli.stop.err = "none" /\ cli.stop.killed
    /\ fs[PidPath] = NoFile
    /\ fs[StatePath] # NoFile /\ Unmarshal(fs[StatePath]).state.Status = "stopped"

====
